---- MODULE Spec2Model ----
(***************************************************************************)
(* Model of the document-analysis service: the webhook gateway of app.py   *)
(* with its background units writing to the external record store, and the *)
(* retrying call client of mistral_api_handler.py.                         *)
(*                                                                         *)
(* Spec          webhook handlers and background units sharing one record  *)
(* SpecRestart   one webhook handler, its unit, and process restarts       *)
(* SpecClient    the retry loop of MistralAPIHandler.run_command           *)
(* SpecClientFair  the same under fair scheduling                          *)
(* SpecPipeline  process_document_complete, call by call                   *)
(* SpecDocs      the calls of several documents, started and returned      *)
(* SpecFlag      the designated-author check of analyze_document           *)
(* SpecSync      /analyze and /analyze-complete                            *)
(* SpecAsync     /analyze-async and its threads                            *)
(* SpecStore     supabase_update, request by request                       *)
(* SpecParse     _parse_entity_response, line by line                      *)
(* SpecRel       _parse_relationship_response, line by line                *)
(***************************************************************************)
EXTENDS Integers, Sequences, FiniteSets, TLC

\* ---------------------------------------------------------------- bounds
\* Number of webhook requests handled concurrently (one thread each).
NumHandlers == 2
\* Length of the whitespace padding put around a text.
PadLen == 1

\* ------------------------------------------------------ program constants
\* app.py: `len(content.strip()) < 50`
MinContentLen == 50
\* mistral_api_handler.py: self.max_retries
max_retries == 3
\* mistral_api_handler.py: self.base_wait_time
base_wait_time == 5
\* mistral_api_handler.py: self.max_tokens_limit
max_tokens_limit == 4096

Handlers == 1..NumHandlers

\* Python's None where a string is expected.
None == "None"

\* The status values the store's status column takes.
Status ==
  {"queued", "ocr_complete", "analysis_in_progress", "analysis_complete",
   "ready", "failed"}

\* ------------------------------------------------------------------ texts
\* A text is held by its shape: `lead` whitespace characters, `body`
\* characters that start and end with a non-whitespace one, `trail`
\* whitespace characters.
\* NoText is Python's None where a text is expected.
Txt(l, b, t) == [none |-> FALSE, lead |-> l, body |-> b, trail |-> t]
NoText == [none |-> TRUE, lead |-> 0, body |-> 0, trail |-> 0]

\* len(s)
StrLen(s) == s.lead + s.body + s.trail

\* s.strip(): leading and trailing whitespace removed.
StripTxt(s) == Txt(0, s.body, 0)

\* Python truthiness of `content`: None and "" are falsy.
Truthy(c) == ~c.none /\ StrLen(c) > 0

\* The texts a payload or a record may carry.
Contents ==
  { NoText,
    Txt(0, 0, 0),
    Txt(PadLen, 0, PadLen),
    Txt(0, MinContentLen - 1, 0),
    Txt(PadLen, MinContentLen - 1, PadLen),
    Txt(0, MinContentLen, 0) }

RecordContents == {NoText, Txt(0, MinContentLen - 1, 0), Txt(PadLen, MinContentLen, 0)}

\* Header and secret strings are sequences of characters.
RECURSIVE LStrip(_)
LStrip(s) == IF s # <<>> /\ Head(s) = " " THEN LStrip(Tail(s)) ELSE s

RECURSIVE RStrip(_)
RStrip(s) ==
  IF s # <<>> /\ s[Len(s)] = " " THEN RStrip(SubSeq(s, 1, Len(s) - 1)) ELSE s

\* str.strip() on a sequence of characters.
Strip(s) == RStrip(LStrip(s))

\* Values of the SUPABASE_WEBHOOK_SECRET environment variable (unset = "").
EnvSecrets == {<<>>, <<" ">>, <<"k">>, <<" ", "k", " ">>}

\* Values of the X-Webhook-Secret header (absent = "").
Headers == {<<>>, <<"k">>, <<"x">>, <<" ", "k", " ">>}

\* --------------------------------------------------------------- requests
\* A webhook request: the X-Webhook-Secret header and the JSON payload.
\* kind "no_payload": empty body; "no_id": record without id; "ok": record
\* with an id, a status, an optional content, and old_record's status
\* (None when old_record is absent or has no status).
\* payload['old_record'] by its form: the key is absent, its value is
\* null, {} or an object without the key 'status', or an object with it.
OldRecords ==
  [form : {"absent", "null", "empty", "no_status"}, status : {None}]
  \cup [form : {"with_status"}, status : {"queued", "ocr_complete"}]

\* `old_record.get('status') if old_record else None`, after
\* `old_record = payload.get('old_record', {})`
old_status(old_record) ==
  IF old_record.form \in {"absent", "null", "empty"} THEN None
  ELSE old_record.status

NewStatuses == {"ocr_complete", "queued"}
OldStatuses == {old_status(o) : o \in OldRecords}

Requests ==
  [header : Headers, kind : {"no_payload", "no_id"}, new_status : {None},
   old_status : {None}, content : {NoText}]
  \cup
  [header : Headers, kind : {"ok"}, new_status : NewStatuses,
   old_status : OldStatuses, content : Contents]

NoRequest ==
  [header |-> <<>>, kind |-> "none", new_status |-> None, old_status |-> None,
   content |-> NoText]
NoResponse == [code |-> 0, status |-> None]
Response(c, st) == [code |-> c, status |-> st]

\* ------------------------------------------------------------------ store
\* The one row of processing_queue the requests are about; NoRecord when
\* the table holds no row with that id.
QueueRecord(st, c) ==
  [exists |-> TRUE, status |-> st, progress |-> 50, current_step |-> "OCR complete",
   error_message |-> None, content |-> c, content_title |-> None,
   completed_at |-> None]

NoRecord ==
  [exists |-> FALSE, status |-> None, progress |-> 0, current_step |-> None,
   error_message |-> None, content |-> NoText, content_title |-> None,
   completed_at |-> None]

\* HTTP answers of the store; 0 stands for a request exception (no answer).
StoreAnswers == {200, 204, 500, 0}

\* PATCH: the columns named in data are overwritten, the others kept.
PatchRecord(r, data) ==
  IF ~r.exists THEN r
  ELSE [f \in DOMAIN r |-> IF f \in DOMAIN data THEN data[f] ELSE r[f]]

VARIABLES
  supabase_configured,  \* bool(supabase_url and supabase_service_key)
  webhook_secret,       \* SUPABASE_WEBHOOK_SECRET, stripped
  rec,                  \* the row in the store
  notification,         \* the request being delivered (NoRequest before)
  hpc,                  \* handler -> position in webhook_start_analysis
  hcontent,             \* handler -> local variable `content`
  hlive,                \* handler -> status its idempotency read returned
  hreads,               \* handler -> store reads issued
  hwrites,              \* handler -> data of the store writes it issued
  response,             \* handler -> HTTP response returned
  upc,                  \* handler -> position of the thread it started
  uresult,              \* unit -> what process_document_complete gave
  ulog,                 \* unit -> store writes and pipeline runs, in order
  rc_pc,                \* run_command: "idle", "loop", "done"
  rc_attempt,           \* run_command: loop variable `attempt`
  rc_outcomes,          \* run_command: outcome of each request sent
  rc_waits,             \* run_command: each time.sleep(wait_time)
  rc_requested,         \* run_command: parameter max_tokens
  rc_sent_tokens,       \* run_command: data["max_tokens"]
  rc_result,            \* run_command: returned string
  rc_prev,              \* outcomes and result of the call made before
  pp_pc,                \* process_document_complete: the step it is at
  pp_calls,             \* process_document_complete: outbound calls made
  pp_result,            \* process_document_complete: the result so far
  sy_pc,                \* /analyze, /analyze-complete: handler position
  sy_request,           \* /analyze, /analyze-complete: the request
  sy_result,            \* /analyze, /analyze-complete: local `result`
  sy_response,          \* /analyze, /analyze-complete: HTTP response
  a_request,            \* /analyze-async: the request being delivered
  a_pc,                 \* handler -> position in analyze_document_async
  a_response,           \* handler -> HTTP response returned
  a_upc,                \* handler -> position of the thread it started
  a_uresult,            \* unit -> what process_document_complete gave
  a_ulog,               \* unit -> data of the store writes it issued
  su_pc,                \* supabase_update: "idle", "request", "returned"
  su_data,              \* supabase_update: parameter data
  su_requests,          \* supabase_update: PATCH requests sent by the call
  su_answer,            \* supabase_update: what the store answered
  su_returned,          \* supabase_update: the returned bool
  pe_response,          \* _parse_entity_response: lines of the response
  pe_i,                 \* _parse_entity_response: lines consumed
  pe_current,           \* _parse_entity_response: current_category
  pe_entities,          \* _parse_entity_response: entities
  hf_pc,                \* author check: "idle", the source at hand, "done"
  hf_metadata_author,   \* author check: content_analysis.get('Author', '')
  hf_content_author,    \* author check: content_extracted's content_authors
  hf_catalogue_entry,   \* author check: catalogue_entry
  hf_examined,          \* author check: the sources tested, in order
  is_hall_document,     \* author check: the flag
  d_pc,                 \* thread -> the call its document is at
  d_inflight,           \* thread -> a call of its document is under way
  d_calls,              \* thread -> the calls of its document, as started
  pr_response,          \* _parse_relationship_response: lines
  pr_i,                 \* _parse_relationship_response: lines consumed
  pr_relationships      \* _parse_relationship_response: relationships

webhook_vars ==
  <<supabase_configured, webhook_secret, rec, notification, hpc, hcontent,
    hlive, hreads, hwrites, response, upc, uresult, ulog>>
client_vars ==
  <<rc_pc, rc_attempt, rc_outcomes, rc_waits, rc_requested, rc_sent_tokens,
    rc_result, rc_prev>>
pipeline_vars == <<pp_pc, pp_calls, pp_result>>
sync_vars == <<sy_pc, sy_request, sy_result, sy_response>>
async_vars == <<a_request, a_pc, a_response, a_upc, a_uresult, a_ulog>>
store_vars == <<su_pc, su_data, su_requests, su_answer, su_returned>>
parse_vars == <<pe_response, pe_i, pe_current, pe_entities>>
flag_vars ==
  <<hf_pc, hf_metadata_author, hf_content_author, hf_catalogue_entry,
    hf_examined, is_hall_document>>
docs_vars == <<d_pc, d_inflight, d_calls>>
rel_vars == <<pr_response, pr_i, pr_relationships>>
analysis_vars == <<flag_vars, docs_vars, rel_vars>>
endpoint_vars ==
  <<sync_vars, async_vars, store_vars, parse_vars, analysis_vars>>
vars == <<webhook_vars, client_vars, pipeline_vars, endpoint_vars>>

\* supabase_update(table, data, match_column, match_value) when the store
\* answers `answer`: the row afterwards and the returned bool.
StatusOkOnly200(answer) == answer = 200
StatusOk(answer) == answer \in {200, 204}

supabase_update(r, data, answer) ==
  IF ~supabase_configured THEN [rec |-> r, ok |-> FALSE]
  ELSE IF StatusOk(answer) THEN [rec |-> PatchRecord(r, data), ok |-> TRUE]
  ELSE [rec |-> r, ok |-> FALSE]

\* check_idempotency(queue_id, expected_status) when the store answers
\* `answer` to the GET: the returned bool.
check_idempotency_any_status(r, expected_status, answer) ==
  supabase_configured /\ answer = 200 /\ r.exists
check_idempotency_fail_open(r, expected_status, answer) ==
  IF ~supabase_configured THEN FALSE
  ELSE IF answer # 200 THEN TRUE
  ELSE IF ~r.exists THEN FALSE
  ELSE IF r.status # expected_status THEN FALSE
  ELSE TRUE
check_idempotency(r, expected_status, answer) ==
  IF ~supabase_configured THEN FALSE
  ELSE IF answer # 200 THEN FALSE
  ELSE IF ~r.exists THEN FALSE
  ELSE IF r.status # expected_status THEN FALSE
  ELSE TRUE

\* get_queue_record(queue_id): the row, or None (here NoRecord).
get_queue_record(r, answer) ==
  IF ~supabase_configured THEN NoRecord
  ELSE IF answer # 200 THEN NoRecord
  ELSE IF ~r.exists THEN NoRecord
  ELSE r

\* verify_webhook_secret(request): (valid, error_response).
verify_webhook_secret_open(header) ==
  IF header # webhook_secret
    THEN [valid |-> FALSE, error_response |-> Response(401, None)]
    ELSE [valid |-> TRUE, error_response |-> NoResponse]
verify_webhook_secret(header) ==
  IF webhook_secret = <<>>
    THEN [valid |-> FALSE, error_response |-> Response(500, None)]
  ELSE IF header # webhook_secret
    THEN [valid |-> FALSE, error_response |-> Response(401, None)]
  ELSE [valid |-> TRUE, error_response |-> NoResponse]

\* --------------------------------------------------------------- pipeline
\* What one pipeline run meets.  initial, detailed: run_command's return
\* for steps 2 and 3 ("error" is a string starting with "Error:").
\* entities_found: the entity response held a recognised item.  raises: an
\* exception escapes process_document_complete, which has no handler of its
\* own; no failed outbound call produces one, each being turned into an
\* error text or a default by the step that made it.
CallKinds == {"text", "error"}
PipelineOutcomes ==
  [initial : CallKinds, detailed : CallKinds, entities_found : BOOLEAN,
   raises : BOOLEAN]

NoResult ==
  [raised |-> FALSE, error |-> FALSE, content_title |-> None, calls |-> 0]

\* UrbanPlanningAnalysis.analyze_document: whether the returned dict has
\* the key 'error', and the number of run_command calls made.
analyze_document(o) ==
  IF o.initial = "error" THEN [error |-> TRUE, calls |-> 2]
  ELSE IF o.detailed = "error" THEN [error |-> TRUE, calls |-> 3]
  ELSE [error |-> FALSE, calls |-> 10]

\* DocumentProcessor.process_document: always returns a dict.
process_document(o) ==
  LET a == analyze_document(o) IN
  IF a.error
    THEN [raised |-> FALSE, error |-> TRUE,
          content_title |-> "Analysis Failed", calls |-> a.calls]
    ELSE [raised |-> FALSE, error |-> FALSE,
          content_title |-> "title", calls |-> a.calls + 1]

\* EnhancedDocumentProcessor.process_document_complete: the standard
\* analysis, then embedding, entities, relationships (skipped without
\* entities) and graph metadata, whatever the standard analysis returned.
process_document_complete(o) ==
  LET d == process_document(o)
      n == d.calls + 2 + (IF o.entities_found THEN 1 ELSE 0)
  IN [d EXCEPT !.calls = n, !.raised = o.raises]

\* ------------------------------------------------------------ store writes
InProgressData ==
  [status |-> "analysis_in_progress",
   current_step |-> "AI analysis in progress...", progress |-> 75]

CompleteData(result) ==
  [status |-> "analysis_complete",
   current_step |-> "Analysis complete, extracting fields...",
   progress |-> 90, content_title |-> result.content_title]

FailedData ==
  [status |-> "failed", error_message |-> "str(e)",
   current_step |-> "Analysis failed: str(e)"]

ReadyData ==
  [status |-> "ready", current_step |-> "Completed (no content to analyze)",
   progress |-> 100, completed_at |-> "utcnow"]

LogWrite(data) == [ev |-> "write", status |-> data.status]
LogPipeline == [ev |-> "pipeline", status |-> None]

\* ---------------------------------------------------------------- webhook
\* webhook_start_analysis up to the idempotency check: the response of a
\* request that ends there, NoResponse for one that goes on.
PayloadDecisionNoOldStatus(r) ==
  IF r.kind = "no_payload" THEN Response(400, None)
  ELSE IF r.kind = "no_id" THEN Response(400, None)
  ELSE IF r.new_status # "ocr_complete" THEN Response(200, "skipped")
  ELSE NoResponse
PayloadDecisionOldRequired(r) ==
  IF r.kind = "no_payload" THEN Response(400, None)
  ELSE IF r.kind = "no_id" THEN Response(400, None)
  ELSE IF r.new_status # "ocr_complete" THEN Response(200, "skipped")
  ELSE IF r.old_status \in {None, "ocr_complete"} THEN Response(200, "skipped")
  ELSE NoResponse
PayloadDecision(r) ==
  IF r.kind = "no_payload" THEN Response(400, None)
  ELSE IF r.kind = "no_id" THEN Response(400, None)
  ELSE IF r.new_status # "ocr_complete" THEN Response(200, "skipped")
  ELSE IF r.old_status = "ocr_complete" THEN Response(200, "skipped")
  ELSE NoResponse

EarlyResponse(r) ==
  LET v == verify_webhook_secret(r.header) IN
  IF ~v.valid THEN v.error_response ELSE PayloadDecision(r)

\* `not content or len(content.strip()) < 50`
MinimalContentUnstripped(c) == ~Truthy(c) \/ StrLen(c) < MinContentLen
MinimalContent(c) == ~Truthy(c) \/ StrLen(StripTxt(c)) < MinContentLen

AcceptedResponse200 == Response(200, "accepted")
AcceptedResponse == Response(202, "accepted")

Finish(h, resp) ==
  /\ hpc' = [hpc EXCEPT ![h] = "done"]
  /\ response' = [response EXCEPT ![h] = resp]

\* The request arrives: secret, payload and status checks.
Receive(h) ==
  /\ hpc[h] = "idle"
  /\ \E r \in Requests :
       /\ notification \in {NoRequest, r}
       /\ notification' = r
       /\ IF EarlyResponse(r) # NoResponse
            THEN Finish(h, EarlyResponse(r))
            ELSE /\ hpc' = [hpc EXCEPT ![h] = "check_idempotency"]
                 /\ UNCHANGED response
  /\ UNCHANGED <<supabase_configured, webhook_secret, rec, hcontent, hlive,
                 hreads, hwrites, upc, uresult, ulog, client_vars, pipeline_vars,
                 endpoint_vars>>

\* With `content` known: the direct ready transition is next, or the thread
\* is started and the request answered.
AfterContent(h, c) ==
  /\ hcontent' = [hcontent EXCEPT ![h] = c]
  /\ IF MinimalContent(c)
       THEN /\ hpc' = [hpc EXCEPT ![h] = "write_ready"]
            /\ UNCHANGED <<upc, response>>
       ELSE /\ upc' = [upc EXCEPT ![h] = "start"]
            /\ Finish(h, AcceptedResponse)

\* check_idempotency(queue_id, 'ocr_complete'), then record.get('content').
CheckIdempotency(h) ==
  /\ hpc[h] = "check_idempotency"
  /\ \E answer \in StoreAnswers :
       /\ hreads' = [hreads EXCEPT ![h] = @ + (IF supabase_configured THEN 1 ELSE 0)]
       /\ hlive' = [hlive EXCEPT ![h] =
            IF supabase_configured /\ answer = 200 /\ rec.exists
              THEN rec.status ELSE None]
       /\ IF ~check_idempotency(rec, "ocr_complete", answer)
            THEN /\ Finish(h, Response(200, "skipped"))
                 /\ UNCHANGED <<hcontent, upc>>
            ELSE IF Truthy(notification.content)
              THEN AfterContent(h, notification.content)
              ELSE /\ hpc' = [hpc EXCEPT ![h] = "get_queue_record"]
                   /\ UNCHANGED <<hcontent, upc, response>>
  /\ UNCHANGED <<supabase_configured, webhook_secret, rec, notification,
                 hwrites, uresult, ulog, client_vars, pipeline_vars,
                 endpoint_vars>>

\* get_queue_record(queue_id) for a payload without content.
GetQueueRecordKeepingPayload(h) ==
  /\ hpc[h] = "get_queue_record"
  /\ hreads' = [hreads EXCEPT ![h] = @ + (IF supabase_configured THEN 1 ELSE 0)]
  /\ AfterContent(h, notification.content)
  /\ UNCHANGED <<supabase_configured, webhook_secret, rec, notification,
                 hlive, hwrites, uresult, ulog, client_vars, pipeline_vars,
                 endpoint_vars>>
GetQueueRecord(h) ==
  /\ hpc[h] = "get_queue_record"
  /\ \E answer \in StoreAnswers :
       LET fresh_record == get_queue_record(rec, answer) IN
       /\ hreads' = [hreads EXCEPT ![h] = @ + (IF supabase_configured THEN 1 ELSE 0)]
       /\ AfterContent(h, IF fresh_record.exists THEN fresh_record.content
                          ELSE notification.content)
  /\ UNCHANGED <<supabase_configured, webhook_secret, rec, notification,
                 hlive, hwrites, uresult, ulog, client_vars, pipeline_vars,
                 endpoint_vars>>

\* The direct transition to 'ready' for empty or minimal content.
WriteReady(h) ==
  /\ hpc[h] = "write_ready"
  /\ \E answer \in StoreAnswers :
       rec' = supabase_update(rec, ReadyData, answer).rec
  /\ hwrites' = [hwrites EXCEPT ![h] = Append(@, ReadyData)]
  /\ Finish(h, Response(200, "completed"))
  /\ UNCHANGED <<supabase_configured, webhook_secret, notification, hcontent,
                 hlive, hreads, upc, uresult, ulog, client_vars, pipeline_vars,
                 endpoint_vars>>

\* ----------------------------------------------------- run_webhook_analysis
\* The first store write of the thread.
UnitStartWithoutWrite(h) ==
  /\ upc[h] = "start"
  /\ upc' = [upc EXCEPT ![h] = "pipeline"]
  /\ UNCHANGED <<supabase_configured, webhook_secret, rec, notification, hpc,
                 hcontent, hlive, hreads, hwrites, response, uresult, ulog,
                 client_vars, pipeline_vars,
                 endpoint_vars>>
UnitStartStopsOnFailure(h) ==
  /\ upc[h] = "start"
  /\ \E answer \in StoreAnswers :
       LET u == supabase_update(rec, InProgressData, answer) IN
       /\ rec' = u.rec
       /\ ulog' = [ulog EXCEPT ![h] = Append(@, LogWrite(InProgressData))]
       /\ upc' = [upc EXCEPT ![h] = IF u.ok THEN "pipeline" ELSE "done"]
  /\ UNCHANGED <<supabase_configured, webhook_secret, notification, hpc,
                 hcontent, hlive, hreads, hwrites, response, uresult,
                 client_vars, pipeline_vars,
                 endpoint_vars>>
UnitStart(h) ==
  /\ upc[h] = "start"
  /\ \E answer \in StoreAnswers :
       LET u == supabase_update(rec, InProgressData, answer) IN
       /\ rec' = u.rec
       /\ ulog' = [ulog EXCEPT ![h] = Append(@, LogWrite(InProgressData))]
  /\ upc' = [upc EXCEPT ![h] = "pipeline"]
  /\ UNCHANGED <<supabase_configured, webhook_secret, notification, hpc,
                 hcontent, hlive, hreads, hwrites, response, uresult,
                 client_vars, pipeline_vars,
                 endpoint_vars>>

\* enhanced_document_processor.process_document_complete(text, metadata)
UnitPipeline(h) ==
  /\ upc[h] = "pipeline"
  /\ \E o \in PipelineOutcomes :
       uresult' = [uresult EXCEPT ![h] = process_document_complete(o)]
  /\ ulog' = [ulog EXCEPT ![h] = Append(@, LogPipeline)]
  /\ upc' = [upc EXCEPT ![h] = "terminal"]
  /\ UNCHANGED <<supabase_configured, webhook_secret, rec, notification, hpc,
                 hcontent, hlive, hreads, hwrites, response, client_vars, pipeline_vars,
                 endpoint_vars>>

\* The data of the last write: the results when the pipeline returned, the
\* failure when it raised.
TerminalData(result) ==
  IF result.raised THEN FailedData ELSE CompleteData(result)

UnitTerminal(h) ==
  /\ upc[h] = "terminal"
  /\ \E answer \in StoreAnswers :
       LET data == TerminalData(uresult[h])
           u == supabase_update(rec, data, answer) IN
       /\ rec' = u.rec
       /\ ulog' = [ulog EXCEPT ![h] = Append(@, LogWrite(data))]
  /\ upc' = [upc EXCEPT ![h] = "done"]
  /\ UNCHANGED <<supabase_configured, webhook_secret, notification, hpc,
                 hcontent, hlive, hreads, hwrites, response, uresult,
                 client_vars, pipeline_vars,
                 endpoint_vars>>

\* ------------------------------------------------------------ call client
\* What one request of run_command's retry loop meets.
\*   ok200        200 with a well-formed body
\*   decode200    200, response.json() raises json.JSONDecodeError
\*   malformed200 200, the body lacks choices[0].message.content
\*   r429 r401 r5xx   those status codes;  r4xx  any other status
\*   timeout      requests.exceptions.Timeout
\*   connerr      requests.exceptions.ConnectionError
\*   exception    any other exception of session.post
TransientOutcomes == {"r429", "r5xx", "timeout", "connerr"}
FinalOutcomes ==
  {"ok200", "decode200", "malformed200", "r401", "r4xx", "exception"}

\* The strings run_command returns.
ErrNoKey == "Error: API key not configured"
ErrPrompt == "Error: Invalid prompt"
ErrAuth == "Error: Invalid API key or authentication failed"
ErrRequest == "Error: API request failed - detail"
ErrTimeout == "Error: All requests timed out. Please try again later."
ErrConnect ==
  "Error: Unable to connect to Mistral API. Please check your internet connection."
ErrDecode == "Error: Invalid response from API"
ErrOther == "Error: str(e)"
ErrMaxRetries == "Error: Maximum retry attempts reached. Please try again later."
ResponseText == "content"

NoCall == [outcomes |-> <<>>, result |-> None]

\* max_tokens = min(max_tokens, self.max_tokens_limit)
Min(a, b) == IF a < b THEN a ELSE b
CapTokensUncapped(max_tokens) == max_tokens
CapTokens(max_tokens) == Min(max_tokens, max_tokens_limit)

\* wait_time after a 429: self.base_wait_time * (attempt + 1) * 2
RateLimitWaitSingle(attempt) == base_wait_time * (attempt + 1)
RateLimitWait(attempt) == base_wait_time * (attempt + 1) * 2
\* wait_time after a 5xx, a timeout or a connection error
BackoffWait(attempt) == base_wait_time * (attempt + 1)

\* `for attempt in range(self.max_retries)`: whether another iteration
\* follows iteration `attempt`.
LoopContinuesShort(attempt) == attempt + 1 < max_retries - 1
LoopContinuesOnceMore(attempt) == attempt < max_retries
LoopContinues(attempt) == attempt + 1 < max_retries

\* `if attempt == self.max_retries - 1` in the Timeout and ConnectionError
\* handlers.
LastAttemptEarly(attempt) == attempt = max_retries - 2
LastAttemptNever(attempt) == FALSE
LastAttempt(attempt) == attempt = max_retries - 1

RcReturn(result) ==
  /\ rc_pc' = "done"
  /\ rc_result' = result

\* One request is sent and `outcome` is what it meets.
RcSend(outcome) ==
  /\ rc_pc = "loop"
  /\ rc_outcomes' = Append(rc_outcomes, outcome)

\* `continue`, or falling out of the loop to the closing return.
RcContinue ==
  IF LoopContinues(rc_attempt)
    THEN /\ rc_attempt' = rc_attempt + 1
         /\ UNCHANGED <<rc_pc, rc_result>>
    ELSE /\ RcReturn(ErrMaxRetries)
         /\ UNCHANGED rc_attempt

\* run_command(prompt, max_tokens, ...) up to the retry loop.
RequestedTokens == {300, 4096, 5000}

RcCall ==
  /\ rc_pc = "idle"
  /\ \E api_key \in BOOLEAN, prompt_ok \in BOOLEAN, max_tokens \in RequestedTokens :
       /\ rc_requested' = max_tokens
       /\ IF ~api_key
            THEN RcReturn(ErrNoKey) /\ UNCHANGED rc_sent_tokens
          ELSE IF ~prompt_ok
            THEN RcReturn(ErrPrompt) /\ UNCHANGED rc_sent_tokens
          ELSE /\ rc_sent_tokens' = CapTokens(max_tokens)
               /\ rc_pc' = "loop"
               /\ UNCHANGED rc_result
  /\ UNCHANGED <<rc_attempt, rc_outcomes, rc_waits, rc_prev, webhook_vars, pipeline_vars,
                 endpoint_vars>>

Rc200 ==
  /\ RcSend("ok200")
  /\ RcReturn(ResponseText)
  /\ UNCHANGED <<rc_attempt, rc_waits, rc_requested, rc_sent_tokens, rc_prev,
                 webhook_vars, pipeline_vars,
                 endpoint_vars>>

Rc200UndecodableRetried ==
  /\ RcSend("decode200")
  /\ rc_waits' = Append(rc_waits, BackoffWait(rc_attempt))
  /\ RcContinue
  /\ UNCHANGED <<rc_requested, rc_sent_tokens, rc_prev, webhook_vars, pipeline_vars,
                 endpoint_vars>>
Rc200Undecodable ==
  /\ RcSend("decode200")
  /\ RcReturn(ErrDecode)
  /\ UNCHANGED <<rc_attempt, rc_waits, rc_requested, rc_sent_tokens, rc_prev,
                 webhook_vars, pipeline_vars,
                 endpoint_vars>>

Rc200Malformed ==
  /\ RcSend("malformed200")
  /\ RcReturn(ErrOther)
  /\ UNCHANGED <<rc_attempt, rc_waits, rc_requested, rc_sent_tokens, rc_prev,
                 webhook_vars, pipeline_vars,
                 endpoint_vars>>

Rc429 ==
  /\ RcSend("r429")
  /\ rc_waits' = Append(rc_waits, RateLimitWait(rc_attempt))
  /\ RcContinue
  /\ UNCHANGED <<rc_requested, rc_sent_tokens, rc_prev, webhook_vars, pipeline_vars,
                 endpoint_vars>>

Rc401Retried ==
  /\ RcSend("r401")
  /\ rc_waits' = Append(rc_waits, BackoffWait(rc_attempt))
  /\ RcContinue
  /\ UNCHANGED <<rc_requested, rc_sent_tokens, rc_prev, webhook_vars, pipeline_vars,
                 endpoint_vars>>
Rc401 ==
  /\ RcSend("r401")
  /\ RcReturn(ErrAuth)
  /\ UNCHANGED <<rc_attempt, rc_waits, rc_requested, rc_sent_tokens, rc_prev,
                 webhook_vars, pipeline_vars,
                 endpoint_vars>>

Rc5xx ==
  /\ RcSend("r5xx")
  /\ rc_waits' = Append(rc_waits, BackoffWait(rc_attempt))
  /\ RcContinue
  /\ UNCHANGED <<rc_requested, rc_sent_tokens, rc_prev, webhook_vars, pipeline_vars,
                 endpoint_vars>>

RcOtherStatus ==
  /\ RcSend("r4xx")
  /\ RcReturn(ErrRequest)
  /\ UNCHANGED <<rc_attempt, rc_waits, rc_requested, rc_sent_tokens, rc_prev,
                 webhook_vars, pipeline_vars,
                 endpoint_vars>>

RcTimeout ==
  /\ RcSend("timeout")
  /\ rc_waits' = Append(rc_waits, BackoffWait(rc_attempt))
  /\ IF LastAttempt(rc_attempt)
       THEN RcReturn(ErrTimeout) /\ UNCHANGED rc_attempt
       ELSE RcContinue
  /\ UNCHANGED <<rc_requested, rc_sent_tokens, rc_prev, webhook_vars, pipeline_vars,
                 endpoint_vars>>

RcConnectionErrorRetriesOnly ==
  /\ RcSend("connerr")
  /\ rc_waits' = Append(rc_waits, BackoffWait(rc_attempt))
  /\ RcContinue
  /\ UNCHANGED <<rc_requested, rc_sent_tokens, rc_prev, webhook_vars, pipeline_vars,
                 endpoint_vars>>
RcConnectionError ==
  /\ RcSend("connerr")
  /\ rc_waits' = Append(rc_waits, BackoffWait(rc_attempt))
  /\ IF LastAttempt(rc_attempt)
       THEN RcReturn(ErrConnect) /\ UNCHANGED rc_attempt
       ELSE RcContinue
  /\ UNCHANGED <<rc_requested, rc_sent_tokens, rc_prev, webhook_vars, pipeline_vars,
                 endpoint_vars>>

RcException ==
  /\ RcSend("exception")
  /\ RcReturn(ErrOther)
  /\ UNCHANGED <<rc_attempt, rc_waits, rc_requested, rc_sent_tokens, rc_prev,
                 webhook_vars, pipeline_vars,
                 endpoint_vars>>

\* The caller has the result; the handler is called again.
RcNextCall ==
  /\ rc_pc = "done"
  /\ rc_prev' = [outcomes |-> rc_outcomes, result |-> rc_result]
  /\ rc_pc' = "idle"
  /\ rc_attempt' = 0
  /\ rc_outcomes' = <<>>
  /\ rc_waits' = <<>>
  /\ rc_requested' = 0
  /\ rc_sent_tokens' = 0
  /\ rc_result' = None
  /\ UNCHANGED <<webhook_vars, pipeline_vars,
                 endpoint_vars>>

\* ------------------------------------------------- pipeline, step by step
\* process_document_complete followed call by call.  Text values are kept
\* by kind: "unset" before the step that sets them, "text" what a call
\* returned on success, "error" a string starting with "Error:", and the
\* literals of the source.
EmbeddingDim == 1024
PaddedDim == 1536

EntityCategories ==
  {"cities_places", "transport_planning", "urban_concepts",
   "geographic_spatial", "problems_challenges", "solutions_methods"}

AuxiliarySteps == <<"writing_style", "frameworks", "qa_pairs", "comparative">>

\* A vector by its length and whether every entry is 0.0.
Vector(n, z) == [exists |-> TRUE, len |-> n, zero |-> z]
NoVector == [exists |-> FALSE, len |-> 0, zero |-> FALSE]

\* What the embeddings endpoint does with one request.
\*   ok           200, data[0].embedding is a list of 1024 numbers
\*   short        200, data[0].embedding is a list of another length
\*   unreachable  requests.exceptions.ConnectionError
\*   timeout      requests.exceptions.Timeout
\*   non200       any other status code
\*   undecodable  200, response.json() raises
\*   malformed    200, the body has no data[0].embedding, or one that has
\*                no length
EmbeddingFailures ==
  {"unreachable", "timeout", "non200", "undecodable", "malformed"}
EmbeddingModes == {"ok", "short"} \cup EmbeddingFailures

\* EnhancedDocumentProcessor._generate_mistral_embedding: the embedding of
\* a 200 body as it came, 1024 zeros in every other case.
generate_mistral_embedding_short_on_timeout(mode) ==
  IF mode = "ok" THEN Vector(EmbeddingDim, FALSE)
  ELSE IF mode \in {"short", "timeout"} THEN Vector(EmbeddingDim - 1, FALSE)
  ELSE Vector(EmbeddingDim, TRUE)

generate_mistral_embedding(mode) ==
  IF mode = "ok" THEN Vector(EmbeddingDim, FALSE)
  ELSE IF mode = "short" THEN Vector(EmbeddingDim - 1, FALSE)
  ELSE Vector(EmbeddingDim, TRUE)

\* VectorGraphProcessor.create_embedding_metadata
create_embedding_metadata(v) ==
  LET actual_dims == IF v.len = 0 THEN PaddedDim ELSE v.len IN
  [dimensions |-> actual_dims, padded |-> (actual_dims = PaddedDim)]

\* What the entity call returns: an error string, or a text in which the
\* categories of `found` have their header line followed by one item.
EntityResponses ==
  {[kind |-> "error", found |-> {}]} \cup
  {[kind |-> "text", found |-> f] :
     f \in {{}} \cup {{c} : c \in EntityCategories}}

\* VectorGraphProcessor._parse_entity_response: items per category.
parse_entity_response(resp) ==
  [c \in EntityCategories |-> IF c \in resp.found THEN 1 ELSE 0]

NoEntities == [c \in EntityCategories |-> 0]

RECURSIVE SumOver(_, _)
SumOver(f, S) ==
  IF S = {} THEN 0
  ELSE LET c == CHOOSE x \in S : TRUE IN f[c] + SumOver(f, S \ {c})

\* all_entities of extract_relationships: the items handed to the prompt.
AllEntities(entities) == SumOver(entities, DOMAIN entities)

\* What the relationship call returns: an error string, or a text with
\* `triples` lines of the FROM | RELATION | TO format.
RelationshipResponses ==
  {[kind |-> "error", triples |-> 0], [kind |-> "text", triples |-> 0],
   [kind |-> "text", triples |-> 1]}

\* VectorGraphProcessor._parse_relationship_response
parse_relationship_response(resp) == resp.triples

\* VectorGraphProcessor.create_graph_metadata
create_graph_metadata_counting_one(entities, relationships) ==
  [total_entities |-> 1, total_relationships |-> relationships,
   entity_types |-> {c \in DOMAIN entities : entities[c] > 0}]

create_graph_metadata(entities, relationships) ==
  [total_entities |-> AllEntities(entities),
   total_relationships |-> relationships,
   entity_types |-> {c \in DOMAIN entities : entities[c] > 0}]

NoGraph ==
  [total_entities |-> 0, total_relationships |-> 0, entity_types |-> {}]

\* The result before any step has run.
NoAnalysis ==
  [error |-> FALSE, content_title |-> "unset", initial_analysis |-> "unset",
   detailed_analysis |-> "unset", classification |-> "unset",
   catalogue_entry |-> "unset", final_analysis |-> "unset",
   embedding_vector_pg |-> NoVector,
   embedding_metadata |-> [dimensions |-> 0, padded |-> FALSE],
   entities |-> NoEntities, relationships |-> 0, graph_metadata |-> NoGraph]

\* What the extraction call returns: an error string, or a text whose
\* CONTENT_TITLE: line carries a value ("value"), carries nothing after the
\* label ("blank"), or is missing ("absent").  An error string has no such
\* line.
ExtractionResponses ==
  {[kind |-> "error", title |-> "absent"]} \cup
  [kind : {"text"}, title : {"value", "blank", "absent"}]

\* _extract_content_authors_and_title: the rest of the CONTENT_TITLE: line,
\* stripped; the default when no line starts with that label.
extract_content_title(resp) ==
  IF resp.title = "value" THEN "extracted"
  ELSE IF resp.title = "blank" THEN ""
  ELSE "Not found in document content"

\* analyze_document's {'error', 'fallback_analysis'} as process_document
\* returns it.
AnalysisFailed(r) ==
  [r EXCEPT !.error = TRUE, !.content_title = "Analysis Failed",
            !.initial_analysis = "fallback", !.detailed_analysis = "",
            !.classification = "", !.catalogue_entry = "",
            !.final_analysis = "error"]

Call(step, answer) == [step |-> step, answer |-> answer]

PipelineIdle ==
  /\ pp_pc = "idle"
  /\ pp_calls = <<>>
  /\ pp_result = NoAnalysis

\* process_document_complete(content, metadata) is entered.
StepStart ==
  /\ pp_pc = "idle"
  /\ pp_pc' = "extraction"
  /\ UNCHANGED <<pp_calls, pp_result, webhook_vars, client_vars,
                 endpoint_vars>>

\* One run_command call whose return value is stored in `field` as it is.
StepCall(step, field, next) ==
  /\ pp_pc = step
  /\ \E answer \in CallKinds :
       /\ pp_calls' = Append(pp_calls, Call(step, answer))
       /\ pp_result' = [pp_result EXCEPT ![field] = answer]
  /\ pp_pc' = next
  /\ UNCHANGED <<webhook_vars, client_vars,
                 endpoint_vars>>

\* One run_command call whose return value is not a field of the result
\* written to the store.
StepCallUnstored(step, next) ==
  /\ pp_pc = step
  /\ \E answer \in CallKinds :
       pp_calls' = Append(pp_calls, Call(step, answer))
  /\ pp_pc' = next
  /\ UNCHANGED <<pp_result, webhook_vars, client_vars,
                 endpoint_vars>>

StepExtraction ==
  /\ pp_pc = "extraction"
  /\ \E resp \in ExtractionResponses :
       /\ pp_calls' = Append(pp_calls, Call("extraction", resp.kind))
       /\ pp_result' =
            [pp_result EXCEPT !.content_title = extract_content_title(resp)]
  /\ pp_pc' = "initial"
  /\ UNCHANGED <<webhook_vars, client_vars,
                 endpoint_vars>>

\* A step whose return value analyze_document tests with
\* startswith("Error:"): on an error process_document returns the failed
\* result and process_document_complete goes on with the embedding.
StepChecked(step, field, next) ==
  /\ pp_pc = step
  /\ \E answer \in CallKinds :
       /\ pp_calls' = Append(pp_calls, Call(step, answer))
       /\ IF answer = "error"
            THEN /\ pp_result' = AnalysisFailed(pp_result)
                 /\ pp_pc' = "embedding"
            ELSE /\ pp_result' = [pp_result EXCEPT ![field] = answer]
                 /\ pp_pc' = next
  /\ UNCHANGED <<webhook_vars, client_vars,
                 endpoint_vars>>

StepInitial == StepChecked("initial", "initial_analysis", "detailed")
StepDetailed == StepChecked("detailed", "detailed_analysis", "classification")
StepClassification ==
  StepCall("classification", "classification", "confidentiality")
StepConfidentiality == StepCallUnstored("confidentiality", "catalogue")
StepCatalogue == StepCall("catalogue", "catalogue_entry", AuxiliarySteps[1])
StepAuxiliary ==
  \E i \in DOMAIN AuxiliarySteps :
    StepCallUnstored(AuxiliarySteps[i],
                     IF i < Len(AuxiliarySteps) THEN AuxiliarySteps[i + 1]
                     ELSE "final")
StepFinal == StepCall("final", "final_analysis", "embedding")

StepEmbedding ==
  /\ pp_pc = "embedding"
  /\ \E mode \in EmbeddingModes :
       LET v == generate_mistral_embedding(mode) IN
       /\ pp_calls' = Append(pp_calls, Call("embedding", mode))
       /\ pp_result' =
            [pp_result EXCEPT !.embedding_vector_pg = v,
                              !.embedding_metadata = create_embedding_metadata(v)]
  /\ pp_pc' = "entities"
  /\ UNCHANGED <<webhook_vars, client_vars,
                 endpoint_vars>>

\* VectorGraphProcessor.extract_entities
StepEntities ==
  /\ pp_pc = "entities"
  /\ \E resp \in EntityResponses :
       /\ pp_calls' = Append(pp_calls, Call("entities", resp.kind))
       /\ pp_result' = [pp_result EXCEPT !.entities = parse_entity_response(resp)]
  /\ pp_pc' = "relationships"
  /\ UNCHANGED <<webhook_vars, client_vars,
                 endpoint_vars>>

\* VectorGraphProcessor.extract_relationships: no call without entities.
StepRelationships ==
  /\ pp_pc = "relationships"
  /\ IF AllEntities(pp_result.entities) = 0
       THEN /\ pp_result' = [pp_result EXCEPT !.relationships = 0]
            /\ UNCHANGED pp_calls
       ELSE \E resp \in RelationshipResponses :
              /\ pp_calls' = Append(pp_calls, Call("relationships", resp.kind))
              /\ pp_result' =
                   [pp_result EXCEPT
                      !.relationships = parse_relationship_response(resp)]
  /\ pp_pc' = "graph"
  /\ UNCHANGED <<webhook_vars, client_vars,
                 endpoint_vars>>

StepGraph ==
  /\ pp_pc = "graph"
  /\ pp_result' =
       [pp_result EXCEPT
          !.graph_metadata =
             create_graph_metadata(pp_result.entities, pp_result.relationships)]
  /\ pp_pc' = "done"
  /\ UNCHANGED <<pp_calls, webhook_vars, client_vars,
                 endpoint_vars>>

\* ---------------------------------------------- /analyze, /analyze-complete
\* A synchronous request: the endpoint, the JSON body and its fields.
\* body "no_json": request.get_json() is falsy; "no_text": an object without
\* the key 'text'; "ok": an object with 'text' (null is NoText).  The
\* metadata, when given, is an object.
SyncEndpoints == {"analyze", "analyze_complete"}

SyncRequests ==
  [endpoint : SyncEndpoints, body : {"no_json", "no_text"}, text : {NoText}]
  \cup
  [endpoint : SyncEndpoints, body : {"ok"}, text : Contents]

NoSyncRequest == [endpoint |-> None, body |-> "none", text |-> NoText]

\* jsonify({"success": ..., ...}), code
JsonResponse(code, success) ==
  [code |-> code, status |-> IF success THEN "success" ELSE "error"]

\* `not text or len(text.strip()) == 0`
EmptyTextStripless(text) == ~Truthy(text)
EmptyText(text) == ~Truthy(text) \/ StrLen(StripTxt(text)) = 0

\* The checks before the pipeline: the response of a request that ends
\* there, NoResponse for one that goes on.
ValidateBody(r) ==
  IF r.body = "no_json" THEN JsonResponse(400, FALSE)
  ELSE IF r.body = "no_text" THEN JsonResponse(400, FALSE)
  ELSE IF EmptyText(r.text) THEN JsonResponse(400, FALSE)
  ELSE NoResponse

\* The response after the pipeline call: 500 from the except branch when
\* the call raised, the result as a success otherwise.
SyncResponse(result) ==
  IF result.raised THEN JsonResponse(500, FALSE) ELSE JsonResponse(200, TRUE)

SyncIdle ==
  /\ sy_pc = "idle"
  /\ sy_request = NoSyncRequest
  /\ sy_result = NoResult
  /\ sy_response = NoResponse

\* The request arrives and is validated.
SyReceive ==
  /\ sy_pc \in {"idle", "done"}
  /\ \E r \in SyncRequests :
       /\ sy_request' = r
       /\ IF ValidateBody(r) # NoResponse
            THEN /\ sy_pc' = "done"
                 /\ sy_response' = ValidateBody(r)
            ELSE /\ sy_pc' = "pipeline"
                 /\ sy_response' = NoResponse
  /\ sy_result' = NoResult
  /\ UNCHANGED <<webhook_vars, client_vars, pipeline_vars, async_vars,
                 store_vars, parse_vars, analysis_vars>>

\* document_processor.process_document for /analyze,
\* enhanced_document_processor.process_document_complete for
\* /analyze-complete.
SyPipeline ==
  /\ sy_pc = "pipeline"
  /\ \E o \in PipelineOutcomes :
       sy_result' = IF sy_request.endpoint = "analyze"
                      THEN process_document(o)
                      ELSE process_document_complete(o)
  /\ sy_pc' = "respond"
  /\ UNCHANGED <<sy_request, sy_response, webhook_vars, client_vars,
                 pipeline_vars, async_vars, store_vars, parse_vars, analysis_vars>>

SyRespond ==
  /\ sy_pc = "respond"
  /\ sy_response' = SyncResponse(sy_result)
  /\ sy_pc' = "done"
  /\ UNCHANGED <<sy_request, sy_result, webhook_vars, client_vars,
                 pipeline_vars, async_vars, store_vars, parse_vars, analysis_vars>>

\* ----------------------------------------------------------- /analyze-async
\* An asynchronous request: body "no_json", "no_queue_id" (an object
\* without the key 'queue_id'), "no_text", or "ok" with queue_id and text.
\* Every request names the one row of the store.
AsyncTexts == {NoText, Txt(0, 0, 0), Txt(PadLen, 0, PadLen), Txt(PadLen, 1, 0)}

AsyncRequests ==
  [body : {"no_json", "no_queue_id", "no_text"}, text : {NoText}]
  \cup [body : {"ok"}, text : AsyncTexts]

NoAsyncRequest == [body |-> "none", text |-> NoText]

\* analyze_document_async up to thread.start(): the response of a request
\* that ends there, NoResponse for one that goes on.
AsyncDecisionUnconfigured(r) ==
  IF r.body = "no_json" THEN JsonResponse(400, FALSE)
  ELSE IF r.body = "no_queue_id" THEN JsonResponse(400, FALSE)
  ELSE IF r.body = "no_text" THEN JsonResponse(400, FALSE)
  ELSE IF EmptyText(r.text) THEN JsonResponse(400, FALSE)
  ELSE NoResponse
AsyncDecision(r) ==
  IF ~supabase_configured THEN JsonResponse(503, FALSE)
  ELSE IF r.body = "no_json" THEN JsonResponse(400, FALSE)
  ELSE IF r.body = "no_queue_id" THEN JsonResponse(400, FALSE)
  ELSE IF r.body = "no_text" THEN JsonResponse(400, FALSE)
  ELSE IF EmptyText(r.text) THEN JsonResponse(400, FALSE)
  ELSE NoResponse

\* The data of run_async_analysis's three writes.
AsyncProgressData ==
  [current_step |-> "AI analysis in progress...", progress |-> 30]

AsyncCompleteDataWithStatus(result) ==
  [status |-> "analysis_complete", current_step |-> "analysis_complete",
   progress |-> 90, content_title |-> result.content_title]
AsyncCompleteData(result) ==
  [current_step |-> "analysis_complete", progress |-> 90,
   content_title |-> result.content_title]

AsyncFailedData ==
  [current_step |-> "analysis_failed", error_message |-> "str(e)"]

AsyncTerminalData(result) ==
  IF result.raised THEN AsyncFailedData ELSE AsyncCompleteData(result)

\* What run_async_analysis uses of the pipeline's outcome: whether the call
\* raised and, if not, result.get('content_title').
NoAsyncResult == [raised |-> FALSE, content_title |-> None]
AsyncResult(result) ==
  [raised |-> result.raised,
   content_title |-> IF result.raised THEN None ELSE result.content_title]

AsyncIdle ==
  /\ a_request = NoAsyncRequest
  /\ a_pc = [h \in Handlers |-> "idle"]
  /\ a_response = [h \in Handlers |-> NoResponse]
  /\ a_upc = [h \in Handlers |-> "none"]
  /\ a_uresult = [h \in Handlers |-> NoAsyncResult]
  /\ a_ulog = [h \in Handlers |-> <<>>]

async_frame ==
  <<supabase_configured, webhook_secret, notification, hpc, hcontent, hlive,
    hreads, hwrites, response, upc, uresult, ulog, client_vars,
    pipeline_vars, sync_vars, store_vars, parse_vars, analysis_vars>>

\* The request arrives: configuration and body checks.
AsReceive(h) ==
  /\ a_pc[h] = "idle"
  /\ \E r \in AsyncRequests :
       /\ a_request \in {NoAsyncRequest, r}
       /\ a_request' = r
       /\ IF AsyncDecision(r) # NoResponse
            THEN /\ a_pc' = [a_pc EXCEPT ![h] = "done"]
                 /\ a_response' = [a_response EXCEPT ![h] = AsyncDecision(r)]
            ELSE /\ a_pc' = [a_pc EXCEPT ![h] = "start_thread"]
                 /\ UNCHANGED a_response
  /\ UNCHANGED <<rec, a_upc, a_uresult, a_ulog, async_frame>>

\* thread = threading.Thread(target=run_async_analysis, ...); thread.start()
AsStartThread(h) ==
  /\ a_pc[h] = "start_thread"
  /\ a_upc' = [a_upc EXCEPT ![h] = "start"]
  /\ a_pc' = [a_pc EXCEPT ![h] = "respond"]
  /\ UNCHANGED <<rec, a_request, a_response, a_uresult, a_ulog, async_frame>>

\* return jsonify({"success": True, ...}), 202
AsRespondWhenUnitDone(h) ==
  /\ a_pc[h] = "respond"
  /\ a_upc[h] = "done"
  /\ a_response' = [a_response EXCEPT ![h] = JsonResponse(202, TRUE)]
  /\ a_pc' = [a_pc EXCEPT ![h] = "done"]
  /\ UNCHANGED <<rec, a_request, a_upc, a_uresult, a_ulog, async_frame>>
AsRespond(h) ==
  /\ a_pc[h] = "respond"
  /\ a_response' = [a_response EXCEPT ![h] = JsonResponse(202, TRUE)]
  /\ a_pc' = [a_pc EXCEPT ![h] = "done"]
  /\ UNCHANGED <<rec, a_request, a_upc, a_uresult, a_ulog, async_frame>>

\* run_async_analysis: the first store write.
AuStart(h) ==
  /\ a_upc[h] = "start"
  /\ \E answer \in StoreAnswers :
       rec' = supabase_update(rec, AsyncProgressData, answer).rec
  /\ a_ulog' = [a_ulog EXCEPT ![h] = Append(@, AsyncProgressData)]
  /\ a_upc' = [a_upc EXCEPT ![h] = "pipeline"]
  /\ UNCHANGED <<a_request, a_pc, a_response, a_uresult, async_frame>>

AuPipeline(h) ==
  /\ a_upc[h] = "pipeline"
  /\ \E o \in PipelineOutcomes :
       a_uresult' =
         [a_uresult EXCEPT ![h] = AsyncResult(process_document_complete(o))]
  /\ a_upc' = [a_upc EXCEPT ![h] = "terminal"]
  /\ UNCHANGED <<rec, a_request, a_pc, a_response, a_ulog, async_frame>>

\* The write of the results, or of the failure from the except branch.
AuTerminal(h) ==
  /\ a_upc[h] = "terminal"
  /\ \E answer \in StoreAnswers :
       rec' = supabase_update(rec, AsyncTerminalData(a_uresult[h]), answer).rec
  /\ a_ulog' = [a_ulog EXCEPT ![h] = Append(@, AsyncTerminalData(a_uresult[h]))]
  /\ a_upc' = [a_upc EXCEPT ![h] = "done"]
  /\ UNCHANGED <<a_request, a_pc, a_response, a_uresult, async_frame>>

\* ---------------------------------------------------------- supabase_update
\* supabase_update followed request by request.
\* The data dicts the callers pass.
UpdateData == {InProgressData, FailedData, ReadyData}

NoAnswer == -1

StoreIdle ==
  /\ su_pc = "idle"
  /\ su_data = ReadyData
  /\ su_requests = 0
  /\ su_answer = NoAnswer
  /\ su_returned = FALSE

store_frame ==
  <<supabase_configured, webhook_secret, notification, hpc, hcontent, hlive,
    hreads, hwrites, response, upc, uresult, ulog, client_vars,
    pipeline_vars, sync_vars, async_vars, parse_vars, analysis_vars>>

\* supabase_update('processing_queue', data, 'id', queue_id) is called:
\* `if not supabase_configured: return False`.
SuCall ==
  /\ su_pc \in {"idle", "returned"}
  /\ \E data \in UpdateData : su_data' = data
  /\ su_requests' = 0
  /\ su_answer' = NoAnswer
  /\ su_returned' = FALSE
  /\ su_pc' = IF supabase_configured THEN "request" ELSE "returned"
  /\ UNCHANGED <<rec, store_frame>>

\* requests.patch(url, headers=headers, json=data, timeout=30) and the
\* return that follows it on every branch.
SuRequest ==
  /\ su_pc = "request"
  /\ \E answer \in StoreAnswers :
       LET u == supabase_update(rec, su_data, answer) IN
       /\ su_answer' = answer
       /\ rec' = u.rec
       /\ su_returned' = u.ok
  /\ su_requests' = su_requests + 1
  /\ su_pc' = "returned"
  /\ UNCHANGED <<su_data, store_frame>>

\* ---------------------------------------------------- _parse_entity_response
\* Length of the responses parsed line by line.
MaxLines == 3
\* Number of distinct item texts in those responses.
NumItems == 2
\* Items per category in the two-category responses.
ExampleItems == 3

\* A line of the response by what line.strip() leaves of it: `lead` is the
\* whitespace before it.
\*   header  "<name>:"      bullet  "- <item>" (item 0: nothing after "- ")
\*   other   any other text
HeaderLine(name, l) ==
  [kind |-> "header", name |-> name, item |-> 0, lead |-> l]
BulletLine(item, l) ==
  [kind |-> "bullet", name |-> None, item |-> item, lead |-> l]
OtherLine == [kind |-> "other", name |-> None, item |-> 0, lead |-> 0]

Lines ==
  {HeaderLine(n, l) : n \in EntityCategories \cup {"other_name"},
                      l \in {0, PadLen}}
  \cup {BulletLine(i, l) : i \in 0..NumItems, l \in {0, PadLen}}
  \cup {OtherLine}

SeqsUpTo(S, n) == UNION {[1..k -> S] : k \in 0..n}

\* The permutations of 1..n as sequences.
Orders(n) == {f \in [1..n -> 1..n] : \A i, j \in 1..n : f[i] = f[j] => i = j}

\* A response of two categories with ExampleItems distinct bullets each.
TwoCategories(c1, o1, c2, o2) ==
  <<HeaderLine(c1, 0)>> \o [i \in 1..ExampleItems |-> BulletLine(o1[i], 0)] \o
  <<HeaderLine(c2, 0)>> \o [i \in 1..ExampleItems |-> BulletLine(o2[i], 0)]

ExampleResponses ==
  {TwoCategories(p[1], o1, p[2], o2) :
     p \in {q \in EntityCategories \X EntityCategories : q[1] # q[2]},
     o1 \in Orders(ExampleItems), o2 \in Orders(ExampleItems)}

EntityResponseLines == SeqsUpTo(Lines, MaxLines) \cup ExampleResponses

EmptyEntities == [c \in EntityCategories |-> <<>>]

InSeq(x, s) == \E i \in DOMAIN s : s[i] = x

\* One turn of `for line in lines`: current_category and entities after
\* the line.
parse_line_keeping_duplicates(current, entities, line) ==
  IF line.kind = "header" /\ line.name \in DOMAIN entities
    THEN [current |-> line.name, entities |-> entities]
  ELSE IF line.kind = "bullet" /\ line.item # 0 /\ current # None
    THEN [current |-> current,
          entities |-> [entities EXCEPT ![current] = Append(@, line.item)]]
  ELSE [current |-> current, entities |-> entities]
parse_line(current, entities, line) ==
  IF line.kind = "header" /\ line.name \in DOMAIN entities
    THEN [current |-> line.name, entities |-> entities]
  ELSE IF line.kind = "bullet" /\ line.item # 0 /\ current # None
    THEN [current |-> current,
          entities |->
            IF InSeq(line.item, entities[current]) THEN entities
            ELSE [entities EXCEPT ![current] = Append(@, line.item)]]
  ELSE [current |-> current, entities |-> entities]

ParseIdle ==
  /\ pe_response = <<>>
  /\ pe_i = 0
  /\ pe_current = None
  /\ pe_entities = EmptyEntities

parse_frame ==
  <<webhook_vars, client_vars, pipeline_vars, sync_vars, async_vars,
    store_vars, analysis_vars>>

ParseLine ==
  /\ pe_i < Len(pe_response)
  /\ LET p == parse_line(pe_current, pe_entities, pe_response[pe_i + 1]) IN
       /\ pe_current' = p.current
       /\ pe_entities' = p.entities
  /\ pe_i' = pe_i + 1
  /\ UNCHANGED <<pe_response, parse_frame>>

\* ------------------------------------------------------- is_hall_document
\* Strings searched for a substring are sequences of characters; a value
\* that is not a string (None, a number) is NotStr.
Str(chars) == [is_str |-> TRUE, chars |-> chars]
NotStr == [is_str |-> FALSE, chars |-> <<>>]

UpperCase ==
  <<"A", "B", "C", "D", "E", "F", "G", "H", "I", "J", "K", "L", "M", "N", "O",
    "P", "Q", "R", "S", "T", "U", "V", "W", "X", "Y", "Z">>
LowerCase ==
  <<"a", "b", "c", "d", "e", "f", "g", "h", "i", "j", "k", "l", "m", "n", "o",
    "p", "q", "r", "s", "t", "u", "v", "w", "x", "y", "z">>

\* str.lower()
LowerChar(c) ==
  IF \E i \in DOMAIN UpperCase : UpperCase[i] = c
    THEN LowerCase[CHOOSE i \in DOMAIN UpperCase : UpperCase[i] = c]
    ELSE c
Lower(s) == [i \in DOMAIN s |-> LowerChar(s[i])]

\* `sub in s`
Contains(s, sub) ==
  \E i \in 0..(Len(s) - Len(sub)) : SubSeq(s, i + 1, i + Len(sub)) = sub

hall == <<"h", "a", "l", "l">>
peter_hall == <<"p", "e", "t", "e", "r", " ">> \o hall
author_peter_hall == <<"a", "u", "t", "h", "o", "r", ":", " ">> \o peter_hall
authors_peter_hall ==
  <<"a", "u", "t", "h", "o", "r", "(", "s", ")", ":", " ">> \o peter_hall
metadata_authors_peter_hall ==
  <<"m", "e", "t", "a", "d", "a", "t", "a", " ">> \o authors_peter_hall
content_authors_peter_hall ==
  <<"c", "o", "n", "t", "e", "n", "t", "-", "d", "e", "r", "i", "v", "e", "d",
    " ">> \o authors_peter_hall

\* `isinstance(a, str) and ('hall' in a.lower() or 'peter hall' in a.lower())`
author_matches_case_sensitive(a) ==
  a.is_str /\ (Contains(a.chars, hall) \/ Contains(a.chars, peter_hall))
author_matches(a) ==
  a.is_str /\ (Contains(Lower(a.chars), hall)
                 \/ Contains(Lower(a.chars), peter_hall))

\* The four phrases looked for in catalogue_entry.lower().
catalogue_matches(c) ==
  /\ c.is_str
  /\ \/ Contains(Lower(c.chars), metadata_authors_peter_hall)
     \/ Contains(Lower(c.chars), content_authors_peter_hall)
     \/ Contains(Lower(c.chars), authors_peter_hall)
     \/ Contains(Lower(c.chars), author_peter_hall)

\* Values of content_analysis.get('Author', '').
PeterHallText == <<"P", "e", "t", "e", "r", " ", "H", "a", "l", "l">>
HALLText == <<"P", ".", " ", "H", "A", "L", "L">>
UnknownText == <<"U", "n", "k", "n", "o", "w", "n">>
JacobsText == <<"J", "a", "n", "e", " ", "J", "a", "c", "o", "b", "s">>
HallCommaText == <<"h", "a", "l", "l", ",", " ", "p", ".">>

MetadataAuthors ==
  {NotStr, Str(<<>>), Str(UnknownText), Str(PeterHallText), Str(HALLText)}

\* Values of content_extracted.get('content_authors', ''): always a string.
ContentAuthors ==
  {Str(<<>>), Str(JacobsText), Str(PeterHallText), Str(HallCommaText)}

\* Values of catalogue_entry, run_command's return value: a text naming
\* the author after one of the labels, in either case, a text that has the
\* name without the label, and an error string.
AuthorLabelText == <<"A", "u", "t", "h", "o", "r", ":", " ">>
CatalogueNamed == Str(AuthorLabelText \o PeterHallText)
CatalogueNamedUpperCase ==
  Str(<<"M", "E", "T", "A", "D", "A", "T", "A", " ", "A", "U", "T", "H", "O",
        "R", "(", "S", ")", ":", " ", "P", "E", "T", "E", "R", " ", "H", "A",
        "L", "L">>)
CatalogueInitialOnly == Str(AuthorLabelText \o HALLText)
CatalogueError == Str(<<"E", "r", "r", "o", "r", ":", " ", "x">>)

CatalogueEntries ==
  {CatalogueNamed, CatalogueNamedUpperCase, CatalogueInitialOnly,
   CatalogueError}

FlagIdle ==
  /\ hf_pc = "idle"
  /\ hf_metadata_author = NotStr
  /\ hf_content_author = NotStr
  /\ hf_catalogue_entry = NotStr
  /\ hf_examined = <<>>
  /\ is_hall_document = 0

flag_frame ==
  <<webhook_vars, client_vars, pipeline_vars, sync_vars, async_vars,
    store_vars, parse_vars, docs_vars, rel_vars>>

\* `# Check metadata author`
HallMetadata ==
  /\ hf_pc = "metadata"
  /\ hf_examined' = Append(hf_examined, "metadata")
  /\ is_hall_document' =
       IF author_matches(hf_metadata_author) THEN 1 ELSE is_hall_document
  /\ hf_pc' = "content"
  /\ UNCHANGED <<hf_metadata_author, hf_content_author, hf_catalogue_entry,
                 flag_frame>>

\* `# Check content-derived authors`, under `if not is_hall_document`
HallContent ==
  /\ hf_pc = "content"
  /\ IF is_hall_document = 0
       THEN /\ hf_examined' = Append(hf_examined, "content")
            /\ is_hall_document' =
                 IF author_matches(hf_content_author) THEN 1
                 ELSE is_hall_document
       ELSE UNCHANGED <<hf_examined, is_hall_document>>
  /\ hf_pc' = "catalogue"
  /\ UNCHANGED <<hf_metadata_author, hf_content_author, hf_catalogue_entry,
                 flag_frame>>

\* `# Check catalogue entry`, under
\* `if not is_hall_document and isinstance(catalogue_entry, str)`
HallCatalogue ==
  /\ hf_pc = "catalogue"
  /\ IF is_hall_document = 0 /\ hf_catalogue_entry.is_str
       THEN /\ hf_examined' = Append(hf_examined, "catalogue")
            /\ is_hall_document' =
                 IF catalogue_matches(hf_catalogue_entry) THEN 1
                 ELSE is_hall_document
       ELSE UNCHANGED <<hf_examined, is_hall_document>>
  /\ hf_pc' = "done"
  /\ UNCHANGED <<hf_metadata_author, hf_content_author, hf_catalogue_entry,
                 flag_frame>>

\* ------------------------------------------- the calls of several documents
\* process_document_complete run by several threads at once, one document
\* each, every outbound call split into its start and its return.
\* An answer is a text, a text without any recognised entity ("empty"), or
\* an error string.
DocAnswers == {"text", "empty", "error"}

\* The call made after `step` has returned `answer`; "done" after the last.
next_call_catalogue_first(step, answer) ==
  CASE step = "extraction" -> "initial"
    [] step = "initial" -> IF answer = "error" THEN "embedding" ELSE "detailed"
    [] step = "detailed" ->
         IF answer = "error" THEN "embedding" ELSE "classification"
    [] step = "classification" -> "catalogue"
    [] step = "catalogue" -> "confidentiality"
    [] step = "confidentiality" -> "writing_style"
    [] step = "writing_style" -> "frameworks"
    [] step = "frameworks" -> "qa_pairs"
    [] step = "qa_pairs" -> "comparative"
    [] step = "comparative" -> "final"
    [] step = "final" -> "embedding"
    [] step = "embedding" -> "entities"
    [] step = "entities" -> IF answer = "text" THEN "relationships" ELSE "done"
    [] OTHER -> "done"
next_call(step, answer) ==
  CASE step = "extraction" -> "initial"
    [] step = "initial" -> IF answer = "error" THEN "embedding" ELSE "detailed"
    [] step = "detailed" ->
         IF answer = "error" THEN "embedding" ELSE "classification"
    [] step = "classification" -> "confidentiality"
    [] step = "confidentiality" -> "catalogue"
    [] step = "catalogue" -> "writing_style"
    [] step = "writing_style" -> "frameworks"
    [] step = "frameworks" -> "qa_pairs"
    [] step = "qa_pairs" -> "comparative"
    [] step = "comparative" -> "final"
    [] step = "final" -> "embedding"
    [] step = "embedding" -> "entities"
    [] step = "entities" -> IF answer = "text" THEN "relationships" ELSE "done"
    [] OTHER -> "done"

DocsIdle ==
  /\ d_pc = [h \in Handlers |-> "idle"]
  /\ d_inflight = [h \in Handlers |-> FALSE]
  /\ d_calls = [h \in Handlers |-> <<>>]

docs_frame ==
  <<webhook_vars, client_vars, pipeline_vars, sync_vars, async_vars,
    store_vars, parse_vars, flag_vars, rel_vars>>

\* process_document_complete(content, metadata) is entered by thread h.
DocEnter(h) ==
  /\ d_pc[h] = "idle"
  /\ d_pc' = [d_pc EXCEPT ![h] = "extraction"]
  /\ UNCHANGED <<d_inflight, d_calls, docs_frame>>

\* The request of the call at hand is sent; the thread blocks in it.
DocCallStart(h) ==
  /\ d_pc[h] \notin {"idle", "done"}
  /\ ~d_inflight[h]
  /\ d_inflight' = [d_inflight EXCEPT ![h] = TRUE]
  /\ d_calls' = [d_calls EXCEPT ![h] = Append(@, d_pc[h])]
  /\ UNCHANGED <<d_pc, docs_frame>>

\* The call returns and the thread goes on to the next one.
DocCallReturn(h) ==
  /\ d_inflight[h]
  /\ \E answer \in DocAnswers :
       d_pc' = [d_pc EXCEPT ![h] = next_call(d_pc[h], answer)]
  /\ d_inflight' = [d_inflight EXCEPT ![h] = FALSE]
  /\ UNCHANGED <<d_calls, docs_frame>>

\* ------------------------------------------ _parse_relationship_response
\* A line of the response by what the pattern finds in line.strip():
\*   relation  "FROM: x | RELATION: y | TO: z", `lead` whitespace characters
\*             around each of x, y and z
\*   partial   the FROM and RELATION parts without the TO part
\*   other     any other text
RelationKinds == {"influences"}

RelationLine(f, r, t, l) ==
  [kind |-> "relation", from |-> f, relation |-> r, to |-> t, lead |-> l]
PartialLine ==
  [kind |-> "partial", from |-> 1, relation |-> "influences", to |-> 0,
   lead |-> 0]
OtherRelationLine ==
  [kind |-> "other", from |-> 0, relation |-> None, to |-> 0, lead |-> 0]

RelationLines ==
  {RelationLine(f, r, t, l) :
     f \in 1..NumItems, r \in RelationKinds, t \in 1..NumItems,
     l \in {0, PadLen}}
  \cup {PartialLine, OtherRelationLine}

RelationResponses == UNION {[1..k -> RelationLines] : k \in 0..MaxLines}

\* The dict built from match.group(1..3).strip().
Relationship(line) ==
  [from |-> line.from, relation |-> line.relation, to |-> line.to]

\* One turn of `for line in lines`: relationships after the line.
parse_relationship_line_keeping_duplicates(relationships, line) ==
  IF line.kind = "relation"
    THEN Append(relationships, Relationship(line))
    ELSE relationships
parse_relationship_line(relationships, line) ==
  IF line.kind = "relation"
    THEN IF \E i \in DOMAIN relationships :
              relationships[i] = Relationship(line)
           THEN relationships
           ELSE Append(relationships, Relationship(line))
    ELSE relationships

\* The whole loop on `lines`, starting from `relationships`.
RECURSIVE parse_relationship_lines(_, _)
parse_relationship_lines(relationships, lines) ==
  IF lines = <<>> THEN relationships
  ELSE parse_relationship_lines(
         parse_relationship_line(relationships, Head(lines)), Tail(lines))

RelIdle ==
  /\ pr_response = <<>>
  /\ pr_i = 0
  /\ pr_relationships = <<>>

rel_frame ==
  <<webhook_vars, client_vars, pipeline_vars, sync_vars, async_vars,
    store_vars, parse_vars, flag_vars, docs_vars>>

ParseRelationshipLine ==
  /\ pr_i < Len(pr_response)
  /\ pr_relationships' =
       parse_relationship_line(pr_relationships, pr_response[pr_i + 1])
  /\ pr_i' = pr_i + 1
  /\ UNCHANGED <<pr_response, rel_frame>>

AnalysisIdle ==
  /\ FlagIdle
  /\ DocsIdle
  /\ RelIdle

EndpointsIdle ==
  /\ SyncIdle
  /\ AsyncIdle
  /\ StoreIdle
  /\ ParseIdle
  /\ AnalysisIdle

\* ------------------------------------------------------------ specification
ClientIdle ==
  /\ rc_pc = "idle"
  /\ rc_attempt = 0
  /\ rc_outcomes = <<>>
  /\ rc_waits = <<>>
  /\ rc_requested = 0
  /\ rc_sent_tokens = 0
  /\ rc_result = None
  /\ rc_prev = NoCall

WebhookIdle ==
  /\ notification = NoRequest
  /\ hpc = [h \in Handlers |-> "idle"]
  /\ hcontent = [h \in Handlers |-> NoText]
  /\ hlive = [h \in Handlers |-> None]
  /\ hreads = [h \in Handlers |-> 0]
  /\ hwrites = [h \in Handlers |-> <<>>]
  /\ response = [h \in Handlers |-> NoResponse]
  /\ upc = [h \in Handlers |-> "none"]
  /\ uresult = [h \in Handlers |-> NoResult]
  /\ ulog = [h \in Handlers |-> <<>>]

Init ==
  /\ supabase_configured \in BOOLEAN
  /\ webhook_secret \in {Strip(e) : e \in EnvSecrets}
  /\ rec \in {NoRecord} \cup {QueueRecord(st, c) : st \in Status, c \in RecordContents}
  /\ WebhookIdle
  /\ ClientIdle
  /\ PipelineIdle
  /\ EndpointsIdle

Next ==
  \E h \in Handlers :
    \/ Receive(h)
    \/ CheckIdempotency(h)
    \/ GetQueueRecord(h)
    \/ WriteReady(h)
    \/ UnitStart(h)
    \/ UnitPipeline(h)
    \/ UnitTerminal(h)

Spec == Init /\ [][Next]_vars

\* The call client alone, called again and again.
InitClient ==
  /\ supabase_configured = TRUE
  /\ webhook_secret = <<"k">>
  /\ rec = NoRecord
  /\ WebhookIdle
  /\ ClientIdle
  /\ PipelineIdle
  /\ EndpointsIdle

NextClient ==
  \/ RcCall
  \/ Rc200
  \/ Rc200Undecodable
  \/ Rc200Malformed
  \/ Rc429
  \/ Rc401
  \/ Rc5xx
  \/ RcOtherStatus
  \/ RcTimeout
  \/ RcConnectionError
  \/ RcException
  \/ RcNextCall

SpecClient == InitClient /\ [][NextClient]_vars

\* One run of the extended pipeline alone.
InitPipeline ==
  /\ supabase_configured = TRUE
  /\ webhook_secret = <<"k">>
  /\ rec = NoRecord
  /\ WebhookIdle
  /\ ClientIdle
  /\ PipelineIdle
  /\ EndpointsIdle

NextPipeline ==
  \/ StepStart
  \/ StepExtraction
  \/ StepInitial
  \/ StepDetailed
  \/ StepClassification
  \/ StepConfidentiality
  \/ StepCatalogue
  \/ StepAuxiliary
  \/ StepFinal
  \/ StepEmbedding
  \/ StepEntities
  \/ StepRelationships
  \/ StepGraph

SpecPipeline == InitPipeline /\ [][NextPipeline]_vars

\* The process stops and starts again: threads and requests in progress
\* are gone, the store keeps the row.
Restart ==
  /\ notification' = NoRequest
  /\ hpc' = [h \in Handlers |-> "idle"]
  /\ hcontent' = [h \in Handlers |-> NoText]
  /\ hlive' = [h \in Handlers |-> None]
  /\ hreads' = [h \in Handlers |-> 0]
  /\ hwrites' = [h \in Handlers |-> <<>>]
  /\ response' = [h \in Handlers |-> NoResponse]
  /\ upc' = [h \in Handlers |-> "none"]
  /\ uresult' = [h \in Handlers |-> NoResult]
  /\ ulog' = [h \in Handlers |-> <<>>]
  /\ UNCHANGED <<supabase_configured, webhook_secret, rec, client_vars,
                 pipeline_vars, endpoint_vars>>

\* One webhook request at a time, its unit, and restarts of the process.
InitRestart ==
  /\ supabase_configured = TRUE
  /\ webhook_secret = <<"k">>
  /\ rec \in {QueueRecord("ocr_complete", c) : c \in RecordContents}
  /\ WebhookIdle
  /\ ClientIdle
  /\ PipelineIdle
  /\ EndpointsIdle

NextRestart ==
  \/ Restart
  \/ Receive(1)
  \/ CheckIdempotency(1)
  \/ GetQueueRecord(1)
  \/ WriteReady(1)
  \/ UnitStart(1)
  \/ UnitPipeline(1)
  \/ UnitTerminal(1)

SpecRestart == InitRestart /\ [][NextRestart]_vars

\* The environment the endpoints below run in: the store holds the row or
\* not, nothing else is going on.
QuietInit ==
  /\ webhook_secret = <<"k">>
  /\ WebhookIdle
  /\ ClientIdle
  /\ PipelineIdle

\* The synchronous endpoints, one request after the other.
InitSync ==
  /\ supabase_configured \in BOOLEAN
  /\ rec = NoRecord
  /\ QuietInit
  /\ EndpointsIdle

NextSync ==
  \/ SyReceive
  \/ SyPipeline
  \/ SyRespond

SpecSync == InitSync /\ [][NextSync]_vars

\* The asynchronous endpoint and the threads it starts.
InitAsync ==
  /\ supabase_configured \in BOOLEAN
  /\ rec \in {NoRecord, QueueRecord("ocr_complete", NoText),
              QueueRecord("analysis_complete", NoText)}
  /\ QuietInit
  /\ EndpointsIdle

NextAsync ==
  \E h \in Handlers :
    \/ AsReceive(h)
    \/ AsStartThread(h)
    \/ AsRespond(h)
    \/ AuStart(h)
    \/ AuPipeline(h)
    \/ AuTerminal(h)

SpecAsync == InitAsync /\ [][NextAsync]_vars

\* The store gateway alone, called again and again.
InitStore ==
  /\ supabase_configured \in BOOLEAN
  /\ rec \in {NoRecord} \cup {QueueRecord(st, NoText) : st \in Status}
  /\ QuietInit
  /\ EndpointsIdle

NextStore ==
  \/ SuCall
  \/ SuRequest

SpecStore == InitStore /\ [][NextStore]_vars

\* The entity parser on every response of the bounded family.
InitParse ==
  /\ supabase_configured = TRUE
  /\ rec = NoRecord
  /\ QuietInit
  /\ SyncIdle
  /\ AsyncIdle
  /\ StoreIdle
  /\ AnalysisIdle
  /\ pe_response \in EntityResponseLines
  /\ pe_i = 0
  /\ pe_current = None
  /\ pe_entities = EmptyEntities

NextParse == ParseLine

SpecParse == InitParse /\ [][NextParse]_vars

\* The author check on every combination of the three sources.
InitFlag ==
  /\ supabase_configured = TRUE
  /\ rec = NoRecord
  /\ QuietInit
  /\ SyncIdle
  /\ AsyncIdle
  /\ StoreIdle
  /\ ParseIdle
  /\ DocsIdle
  /\ RelIdle
  /\ hf_pc = "metadata"
  /\ hf_metadata_author \in MetadataAuthors
  /\ hf_content_author \in ContentAuthors
  /\ hf_catalogue_entry \in CatalogueEntries
  /\ hf_examined = <<>>
  /\ is_hall_document = 0

NextFlag ==
  \/ HallMetadata
  \/ HallContent
  \/ HallCatalogue

SpecFlag == InitFlag /\ [][NextFlag]_vars

\* The documents of several threads, each call with its start and return.
InitDocs ==
  /\ supabase_configured = TRUE
  /\ rec = NoRecord
  /\ QuietInit
  /\ EndpointsIdle

NextDocs ==
  \E h \in Handlers :
    \/ DocEnter(h)
    \/ DocCallStart(h)
    \/ DocCallReturn(h)

SpecDocs == InitDocs /\ [][NextDocs]_vars

\* The relationship parser on every response of the bounded family.
InitRel ==
  /\ supabase_configured = TRUE
  /\ rec = NoRecord
  /\ QuietInit
  /\ SyncIdle
  /\ AsyncIdle
  /\ StoreIdle
  /\ ParseIdle
  /\ FlagIdle
  /\ DocsIdle
  /\ pr_response \in RelationResponses
  /\ pr_i = 0
  /\ pr_relationships = <<>>

NextRel == ParseRelationshipLine

SpecRel == InitRel /\ [][NextRel]_vars

\* The call client under fair scheduling: a thread inside run_command
\* keeps running.
SpecClientFair == SpecClient /\ WF_vars(NextClient)

\* -------------------------------------------------------------- properties
\* The request presents the configured secret.
Authenticated ==
  webhook_secret # <<>> /\ notification.header = webhook_secret

\* The three conditions of the transition rule, for handler h.
Eligible(h) ==
  /\ notification.kind = "ok"
  /\ notification.new_status = "ocr_complete"
  /\ notification.old_status # "ocr_complete"
  /\ hlive[h] = "ocr_complete"

Dispatched(h) == upc[h] # "none"

Skipped200 == Response(200, "skipped")

\* C1: of the handlers given the same transition-eligible notification for
\* a record in ocr_complete, at most one dispatches a background unit; the
\* others are skipped.
C1_AtMostOneUnit ==
  \A h1, h2 \in Handlers :
    (Dispatched(h1) /\ Dispatched(h2)) => h1 = h2

\* The status a record must hold for a write of `st` to be a valid
\* transition.
ExpectedPrecondition(st) ==
  CASE st = "analysis_in_progress" -> "ocr_complete"
    [] st = "ready" -> "ocr_complete"
    [] st = "analysis_complete" -> "analysis_in_progress"
    [] st = "failed" -> "analysis_in_progress"
    [] OTHER -> None

TerminalStatus == {"analysis_complete", "ready", "failed"}

\* C2: every step that changes the record's status starts from the status
\* expected for that transition, and no step moves a record out of
\* analysis_complete, ready or failed back to analysis_in_progress.
C2_WritesGuardedByPrecondition ==
  [][ (rec'.status # rec.status) =>
        /\ rec.status = ExpectedPrecondition(rec'.status)
        /\ ~(rec.status \in TerminalStatus /\ rec'.status = "analysis_in_progress")
    ]_vars

\* C3: a handler dispatches a unit or goes for the direct ready transition
\* only when the payload's new status is ocr_complete, its old status is
\* not, and the handler's own live read returned ocr_complete; otherwise a
\* well-formed authenticated request ends skipped, having written nothing
\* and dispatched nothing.
C3_TransitionRule ==
  \A h \in Handlers :
    /\ (Dispatched(h) \/ hpc[h] = "write_ready" \/ hwrites[h] # <<>>
        \/ response[h].status \in {"accepted", "completed"}) => Eligible(h)
    /\ (hpc[h] = "done" /\ Authenticated /\ notification.kind = "ok"
        /\ ~Eligible(h)) =>
          /\ response[h] = Skipped200
          /\ hwrites[h] = <<>>
          /\ ~Dispatched(h)

C3_Witness ==
  \E h \in Handlers :
    /\ Dispatched(h)
    /\ response[h].status = "accepted"
    /\ hlive[h] = "ocr_complete"

\* C4: an authenticated notification whose old and new status are both
\* ocr_complete is skipped without any store access or dispatch, also when
\* the record's live status is ocr_complete.
C4_UnchangedStatusSkipped ==
  \A h \in Handlers :
    (/\ hpc[h] # "idle"
     /\ Authenticated
     /\ notification.kind = "ok"
     /\ notification.new_status = "ocr_complete"
     /\ notification.old_status = "ocr_complete") =>
       /\ hpc[h] = "done"
       /\ response[h] = Skipped200
       /\ hreads[h] = 0
       /\ hwrites[h] = <<>>
       /\ ~Dispatched(h)

C4_Witness ==
  \E h \in Handlers :
    /\ hpc[h] = "done"
    /\ Authenticated
    /\ notification.new_status = "ocr_complete"
    /\ notification.old_status = "ocr_complete"
    /\ supabase_configured
    /\ rec.exists
    /\ rec.status = "ocr_complete"
    /\ response[h] = Skipped200

\* The request was turned away by verify_webhook_secret.
Rejected(h) == hpc[h] = "done" /\ response[h].code \in {401, 500}

\* C5: without a configured secret every request is rejected; with one, a
\* request gets past authentication exactly when its header equals the
\* secret; a rejected request reads nothing, writes nothing and dispatches
\* nothing.
C5_AuthFailClosed ==
  \A h \in Handlers :
    hpc[h] # "idle" =>
      /\ (webhook_secret = <<>>) => Rejected(h)
      /\ Rejected(h) <=> ~(webhook_secret # <<>> /\ notification.header = webhook_secret)
      /\ Rejected(h) => (hreads[h] = 0 /\ hwrites[h] = <<>> /\ ~Dispatched(h))

C5_Witness ==
  \E h \in Handlers :
    /\ webhook_secret = <<>>
    /\ notification.header = <<>>
    /\ notification.kind = "ok"
    /\ notification.new_status = "ocr_complete"
    /\ notification.old_status = None
    /\ Rejected(h)

\* A text that is absent, empty, or shorter than 50 characters once its
\* surrounding whitespace is removed.
BelowMinimum(c) == c.none \/ c.body < MinContentLen

\* C6: a handler that passed the idempotency check with such a content
\* issues exactly one write, of status ready with progress 100 and the step
\* note, answers completed, starts no unit, and no LLM or embedding call is
\* made on its behalf.
C6_MinimalContentReady ==
  \A h \in Handlers :
    (/\ hlive[h] = "ocr_complete"
     /\ hpc[h] \in {"write_ready", "done"}
     /\ BelowMinimum(hcontent[h])) =>
       /\ ~Dispatched(h)
       /\ uresult[h].calls = 0
       /\ ulog[h] = <<>>
       /\ hpc[h] = "done" =>
            /\ Len(hwrites[h]) = 1
            /\ hwrites[h][1].status = "ready"
            /\ hwrites[h][1].progress = 100
            /\ hwrites[h][1].current_step = "Completed (no content to analyze)"
            /\ response[h] = Response(200, "completed")

C6_Witness ==
  \E h \in Handlers :
    /\ hpc[h] = "done"
    /\ hcontent[h] = Txt(PadLen, MinContentLen - 1, PadLen)
    /\ StrLen(hcontent[h]) >= MinContentLen
    /\ response[h].status = "completed"
    /\ rec.status = "ready"
    /\ rec.progress = 100

\* C7: the log of a unit is a prefix of: the analysis_in_progress write,
\* the pipeline run, one terminal write (analysis_complete or failed); a
\* finished unit has all three.
C7_UnitWriteOrder ==
  \A h \in Handlers :
    LET log == ulog[h] IN
    /\ Len(log) <= 3
    /\ Len(log) >= 1 =>
         (log[1].ev = "write" /\ log[1].status = "analysis_in_progress")
    /\ Len(log) >= 2 => log[2].ev = "pipeline"
    /\ Len(log) >= 3 =>
         (log[3].ev = "write" /\ log[3].status \in {"analysis_complete", "failed"})
    /\ upc[h] = "pipeline" => Len(log) = 1
    /\ upc[h] = "terminal" => Len(log) = 2
    /\ upc[h] = "done" => Len(log) = 3

C7_Witness ==
  \E h \in Handlers :
    /\ upc[h] = "done"
    /\ uresult[h].raised
    /\ ulog[h][3].status = "failed"

\* C8: a finished unit whose analysis failed (the orchestrator reported an
\* error, or the pipeline raised) has written failed, and one that wrote
\* analysis_complete had a successful analysis.
C8_FailedWhenAnalysisFails ==
  \A h \in Handlers :
    upc[h] = "done" =>
      /\ (uresult[h].error \/ uresult[h].raised) => ulog[h][3].status = "failed"
      /\ ulog[h][3].status = "analysis_complete" => ~uresult[h].error

\* C9: every authenticated request with a well-formed payload is answered
\* 200 with status skipped, accepted or completed.
C9_AlwaysAnswered200 ==
  \A h \in Handlers :
    (hpc[h] = "done" /\ Authenticated /\ notification.kind = "ok") =>
      /\ response[h].code = 200
      /\ response[h].status \in {"skipped", "accepted", "completed"}

\* C9 as amended: skipped (200) when the eligibility decision fails,
\* completed (200) after the direct ready write, accepted with 202 when a
\* unit was dispatched.
C9_AnsweredByDecision ==
  \A h \in Handlers :
    (hpc[h] = "done" /\ Authenticated /\ notification.kind = "ok") =>
      /\ ~Eligible(h) <=> response[h] = Response(200, "skipped")
      /\ (Eligible(h) /\ hwrites[h] # <<>>) <=> response[h] = Response(200, "completed")
      /\ Dispatched(h) <=> response[h] = Response(202, "accepted")
      /\ response[h].status \in {"skipped", "accepted", "completed"}

C9_Witness ==
  \E h1, h2 \in Handlers :
    /\ response[h1] = Response(202, "accepted")
    /\ response[h2] = Response(200, "completed")

\* Every request of the call sent so far met a 429.
All429(outcomes) ==
  outcomes # <<>> /\ \A i \in 1..Len(outcomes) : outcomes[i] = "r429"
No429(outcomes) ==
  \A i \in 1..Len(outcomes) : outcomes[i] # "r429"

\* C10: a call that met 429 on every attempt made exactly max_retries
\* attempts, and the value it returns tells rate limiting apart: no call
\* that never met a 429 returns the same value.
C10_RateLimitIdentified ==
  (rc_pc = "done" /\ All429(rc_outcomes)) =>
    /\ Len(rc_outcomes) = max_retries
    /\ (rc_prev.result = rc_result) => ~No429(rc_prev.outcomes)

\* C10 as amended: a call that meets 429 on every attempt goes on until
\* max_retries attempts are made and then returns the retries-exhausted
\* error, the value also returned after max_retries 5xx answers.
C10_RateLimitExhausted ==
  /\ All429(rc_outcomes) =>
       IF Len(rc_outcomes) < max_retries
         THEN rc_pc = "loop" /\ rc_attempt = Len(rc_outcomes)
         ELSE /\ rc_pc = "done"
              /\ Len(rc_outcomes) = max_retries
              /\ rc_result = ErrMaxRetries
  /\ (rc_pc = "done" /\ Len(rc_outcomes) = max_retries
      /\ \A i \in 1..Len(rc_outcomes) : rc_outcomes[i] = "r5xx") =>
       rc_result = ErrMaxRetries

C10_Witness ==
  /\ rc_pc = "done"
  /\ rc_outcomes = <<"r429", "r429", "r429">>
  /\ rc_waits = <<10, 20, 30>>
  /\ rc_prev.outcomes = <<"r5xx", "r5xx", "r5xx">>
  /\ rc_prev.result = rc_result

\* The attempts of the current call, by position.
Attempts == 1..Len(rc_outcomes)

\* C11: an attempt answered 401 is the last one of its call, which returns
\* the authentication error; a call whose first attempt is answered 401
\* made exactly one attempt.
C11_AuthNotRetried ==
  /\ \A i \in Attempts :
       rc_outcomes[i] = "r401" =>
         /\ i = Len(rc_outcomes)
         /\ rc_pc = "done"
         /\ rc_result = ErrAuth
  /\ (rc_outcomes # <<>> /\ rc_outcomes[1] = "r401") => Len(rc_outcomes) = 1

C11_Witness ==
  /\ rc_pc = "done"
  /\ rc_outcomes = <<"r401">>
  /\ rc_waits = <<>>
  /\ rc_prev.outcomes = <<"r5xx", "r401">>

Transient(outcome) == outcome \in {"timeout", "connerr", "r5xx", "r429"}

\* C12: after a timeout, connection failure, 5xx or 429 the call goes on to
\* the next attempt while fewer than max_retries were made; an attempt
\* answered 200 ends the call with the response text; max_retries attempts
\* that all failed that way end it with a terminal error.
C12_RetryUntilExhausted ==
  /\ (rc_outcomes # <<>> /\ Transient(rc_outcomes[Len(rc_outcomes)])
      /\ Len(rc_outcomes) < max_retries) =>
        (rc_pc = "loop" /\ rc_attempt = Len(rc_outcomes))
  /\ \A i \in Attempts :
       rc_outcomes[i] = "ok200" =>
         (i = Len(rc_outcomes) /\ rc_pc = "done" /\ rc_result = ResponseText)
  /\ (Len(rc_outcomes) = max_retries
      /\ \A i \in Attempts : Transient(rc_outcomes[i])) =>
        /\ rc_pc = "done"
        /\ rc_result \in {ErrMaxRetries, ErrTimeout, ErrConnect}
  /\ Len(rc_outcomes) <= max_retries
  /\ rc_pc = "loop" => \A i \in Attempts : Transient(rc_outcomes[i])

C12_Witness ==
  /\ rc_pc = "done"
  /\ rc_outcomes = <<"timeout", "r429", "ok200">>
  /\ rc_result = ResponseText
  /\ rc_prev.outcomes = <<"connerr", "r5xx", "timeout">>
  /\ rc_prev.result = ErrTimeout

\* C13: an attempt answered 200 with an undecodable body is the last one of
\* its call, at any attempt index, and the call returns the decode error.
C13_DecodeNotRetried ==
  \A i \in Attempts :
    rc_outcomes[i] = "decode200" =>
      /\ i = Len(rc_outcomes)
      /\ rc_pc = "done"
      /\ rc_result = ErrDecode
      /\ Len(rc_waits) = i - 1

C13_Witness ==
  /\ rc_pc = "done"
  /\ rc_outcomes = <<"r5xx", "timeout", "decode200">>
  /\ rc_result = ErrDecode
  /\ rc_prev.outcomes = <<"decode200">>

\* The cause of a finished call, among the five kinds of terminal failure.
AllAre(outcomes, kinds) ==
  Len(outcomes) = max_retries /\ \A i \in 1..Len(outcomes) : outcomes[i] \in kinds

Cause(outcomes) ==
  IF outcomes = <<>> THEN "none"
  ELSE IF outcomes[Len(outcomes)] = "r401" THEN "auth-error"
  ELSE IF outcomes[Len(outcomes)] = "decode200" THEN "decode-error"
  ELSE IF AllAre(outcomes, {"timeout"}) THEN "timeout-exhausted"
  ELSE IF AllAre(outcomes, {"connerr"}) THEN "connection-exhausted"
  ELSE IF AllAre(outcomes, {"r5xx", "r429"}) THEN "retries-exhausted"
  ELSE "none"

\* C14: a finished call whose cause is one of the five kinds returns the
\* value of that kind, and two calls with different causes among the five
\* return different values.
C14_FailureKindsDistinct ==
  rc_pc = "done" =>
    /\ Cause(rc_outcomes) = "timeout-exhausted" => rc_result = ErrTimeout
    /\ Cause(rc_outcomes) = "connection-exhausted" => rc_result = ErrConnect
    /\ Cause(rc_outcomes) = "retries-exhausted" => rc_result = ErrMaxRetries
    /\ Cause(rc_outcomes) = "auth-error" => rc_result = ErrAuth
    /\ Cause(rc_outcomes) = "decode-error" => rc_result = ErrDecode
    /\ (/\ Cause(rc_outcomes) # "none"
        /\ Cause(rc_prev.outcomes) # "none"
        /\ Cause(rc_outcomes) # Cause(rc_prev.outcomes)) =>
          rc_result # rc_prev.result

C14_Witness ==
  /\ rc_pc = "done"
  /\ rc_outcomes = <<"timeout", "timeout", "timeout">>
  /\ rc_result = ErrTimeout
  /\ rc_prev.outcomes = <<"r5xx", "r429", "r5xx">>
  /\ rc_prev.result = ErrMaxRetries

\* C15: the k-th failed attempt is followed by a wait of base_wait_time * k
\* after a timeout, connection failure or 5xx, and of twice that after a
\* 429.
C15_LinearBackoff ==
  /\ Len(rc_waits) = Cardinality({i \in Attempts : Transient(rc_outcomes[i])})
  /\ \A k \in 1..Len(rc_waits) :
       /\ Transient(rc_outcomes[k])
       /\ rc_waits[k] =
            IF rc_outcomes[k] = "r429"
              THEN base_wait_time * k * 2
              ELSE base_wait_time * k

C15_Witness ==
  /\ rc_pc = "done"
  /\ rc_outcomes = <<"r5xx", "r429", "timeout">>
  /\ rc_waits = <<5, 20, 15>>

\* C16: the max_tokens value a call sends is the smaller of the requested
\* value and the ceiling of 4096.
C16_TokensCapped ==
  (rc_pc = "loop" \/ rc_outcomes # <<>>) =>
    /\ rc_sent_tokens <= max_tokens_limit
    /\ rc_requested <= max_tokens_limit => rc_sent_tokens = rc_requested
    /\ rc_requested > max_tokens_limit => rc_sent_tokens = max_tokens_limit

C16_Witness ==
  /\ rc_requested = 5000
  /\ rc_sent_tokens = 4096
  /\ rc_outcomes = <<"r5xx", "ok200">>

\* The outbound calls made so far that returned an error, by position.
FailedCalls(steps) ==
  {i \in DOMAIN pp_calls :
     pp_calls[i].step \in steps /\ pp_calls[i].answer = "error"}

\* C17: once the initial or the detailed analysis call has returned an
\* error, no further outbound call is made in that run, the extended
\* pipeline included: the failed call is the last one of the run.
C17_NoCallAfterAnalysisError ==
  \A i \in FailedCalls({"initial", "detailed"}) : i = Len(pp_calls)

\* C18: a run in which the call of one of steps 1 to 6 returned an error
\* ends with an error result.
StepsOneToSix ==
  {"extraction", "initial", "detailed", "classification", "confidentiality",
   "catalogue"}

C18_StepsOneToSixFatal ==
  (pp_pc = "done" /\ FailedCalls(StepsOneToSix) # {}) => pp_result.error

\* The answer of the embedding request of this run, None before it.
EmbeddingAnswer ==
  LET at == {i \in DOMAIN pp_calls : pp_calls[i].step = "embedding"} IN
  IF at = {} THEN None ELSE pp_calls[CHOOSE i \in at : TRUE].answer

StandardFields(r) ==
  <<r.error, r.content_title, r.initial_analysis, r.detailed_analysis,
    r.classification, r.catalogue_entry, r.final_analysis>>

ExtendedPositions == {"embedding", "entities", "relationships", "graph"}

\* C19: a failed extended step does not fail the run.  The extended steps
\* leave the standard fields as process_document returned them, and the
\* finished run holds a 1024-zero vector after a failed embedding request,
\* six empty entity categories, no relationship and zero graph counts
\* after a failed entity call, and no relationship after a failed
\* relationship call.
C19_Degraded ==
  pp_pc = "done" =>
    /\ EmbeddingAnswer \in EmbeddingFailures =>
         /\ pp_result.embedding_vector_pg.len = 1024
         /\ pp_result.embedding_vector_pg.zero
    /\ FailedCalls({"entities"}) # {} =>
         /\ Cardinality(DOMAIN pp_result.entities) = 6
         /\ \A c \in DOMAIN pp_result.entities : pp_result.entities[c] = 0
         /\ pp_result.relationships = 0
         /\ pp_result.graph_metadata.total_entities = 0
         /\ pp_result.graph_metadata.total_relationships = 0
    /\ FailedCalls({"relationships"}) # {} =>
         /\ pp_result.relationships = 0
         /\ pp_result.graph_metadata.total_relationships = 0

C19_StandardFieldsKept ==
  pp_pc \in ExtendedPositions =>
    StandardFields(pp_result') = StandardFields(pp_result)

C19_ExtendedFailuresDegrade ==
  [](C19_Degraded) /\ [][C19_StandardFieldsKept]_vars

C19_Witness ==
  /\ pp_pc = "done"
  /\ ~pp_result.error
  /\ pp_result.final_analysis = "text"
  /\ EmbeddingAnswer = "timeout"
  /\ FailedCalls({"entities"}) # {}

Blank(text) == text.none \/ text.body = 0

\* C21: a synchronous request whose text is missing, empty or made of
\* whitespace only is answered 400 with success false, and the pipeline is
\* not called for it: no outbound call is made and the store keeps its row.
C21_EmptyTextRejected ==
  (sy_pc = "done" /\ sy_request.body \in {"no_text", "ok"}
                  /\ Blank(sy_request.text)) =>
    /\ sy_response = [code |-> 400, status |-> "error"]
    /\ sy_result.calls = 0
    /\ rec = NoRecord

C21_Witness ==
  /\ sy_pc = "done"
  /\ sy_request.body = "ok"
  /\ sy_request.text = Txt(PadLen, 0, PadLen)
  /\ sy_response.code = 400

\* C22: a synchronous request whose pipeline run reported an error, or
\* raised, is answered 500 with success false.
C22_PipelineFailureIs500 ==
  (sy_pc = "done" /\ (sy_result.error \/ sy_result.raised)) =>
    sy_response = [code |-> 500, status |-> "error"]

C24_AsyncNeedsStore ==
  \A h \in Handlers :
    /\ ~supabase_configured => a_upc[h] = "none"
    /\ (a_pc[h] = "done" /\ ~supabase_configured) =>
         a_response[h] = [code |-> 503, status |-> "error"]
    /\ (a_pc[h] = "done" /\ supabase_configured /\ a_request.body = "ok"
          /\ ~Blank(a_request.text)) =>
         a_response[h] = [code |-> 202, status |-> "success"]

C24_Witness ==
  \E h \in Handlers :
    /\ ~supabase_configured
    /\ a_pc[h] = "done"
    /\ a_request.body = "ok"
    /\ ~Blank(a_request.text)
    /\ a_response[h].code = 503

\* C25: a call of supabase_update sends one PATCH when the store is
\* configured and none otherwise, never a second one; it returns, and
\* returns true exactly when that PATCH was answered 200 or 204.
C25_OneRequestNoRetry ==
  /\ su_requests <= 1
  /\ su_pc = "returned" =>
       /\ su_requests = (IF supabase_configured THEN 1 ELSE 0)
       /\ su_returned <=> (supabase_configured /\ su_answer \in {200, 204})

C25_Witness ==
  /\ su_pc = "returned"
  /\ su_requests = 1
  /\ su_answer = 204
  /\ su_returned

\* C26: of the asynchronous requests that name the same record, at most
\* one has a unit that writes to the store; the others are skipped.
C26_DuplicateTriggerSkipped ==
  Cardinality({h \in Handlers : a_ulog[h] # <<>>}) <= 1

\* C27: when every dispatched unit has ended and no handler is at work,
\* the record of a dispatched unit is in analysis_complete or failed.
C27_UnitEndsTerminal ==
  ( /\ \E h \in Handlers : upc[h] = "done"
    /\ \A h \in Handlers : upc[h] \in {"none", "done"}
    /\ \A h \in Handlers : hpc[h] \in {"idle", "done"} ) =>
    rec.status \in {"analysis_complete", "failed"}

\* C28: a notification delivered again for a record that a stopped process
\* left in analysis_in_progress has the analysis run again: the handler
\* whose idempotency read returned analysis_in_progress starts a unit.
C28_RerunAfterRestart ==
  \A h \in Handlers :
    (hpc[h] = "done" /\ hlive[h] = "analysis_in_progress") => Dispatched(h)

\* The value of a field of the analysis result that process_document
\* returns from one of the auxiliary calls.
Returned(step) ==
  LET at == {i \in DOMAIN pp_calls : pp_calls[i].step = step} IN
  IF at = {} THEN "unset" ELSE pp_calls[CHOOSE i \in at : TRUE].answer

PrimaryValues ==
  {pp_result.content_title, pp_result.initial_analysis,
   pp_result.detailed_analysis, pp_result.classification,
   pp_result.catalogue_entry, pp_result.final_analysis}
  \cup {Returned(AuxiliarySteps[i]) : i \in DOMAIN AuxiliarySteps}

AllSteps ==
  StepsOneToSix \cup {AuxiliarySteps[i] : i \in DOMAIN AuxiliarySteps}
  \cup {"final", "entities", "relationships"}

\* C29: a finished run in which no call returned an error has no empty
\* and no unset primary field.
C29_PrimaryFieldsNonEmpty ==
  (pp_pc = "done" /\ FailedCalls(AllSteps) = {}) =>
    PrimaryValues \cap {"", "unset"} = {}

\* The line the parser is about to read.
NextLine == pe_response[pe_i + 1]

\* C30, one line: a header of one of the six categories selects it; a
\* bullet under a selected category is appended to it unless it is there
\* already; any other line changes nothing.
C30_LineRule ==
  pe_i < Len(pe_response) =>
    IF NextLine.kind = "header" /\ NextLine.name \in EntityCategories
      THEN pe_current' = NextLine.name /\ pe_entities' = pe_entities
    ELSE IF NextLine.kind = "bullet" /\ NextLine.item # 0
            /\ pe_current # None
      THEN /\ pe_current' = pe_current
           /\ \A c \in EntityCategories \ {pe_current} :
                pe_entities'[c] = pe_entities[c]
           /\ pe_entities'[pe_current] =
                IF \E i \in DOMAIN pe_entities[pe_current] :
                     pe_entities[pe_current][i] = NextLine.item
                  THEN pe_entities[pe_current]
                  ELSE pe_entities[pe_current] \o <<NextLine.item>>
    ELSE pe_current' = pe_current /\ pe_entities' = pe_entities

\* C30, the result: always the six category keys; a parsed response of two
\* categories with three distinct bullets each gives those items in their
\* categories, in the order of the response, and nothing elsewhere.
C30_Result ==
  /\ DOMAIN pe_entities = EntityCategories
  /\ Cardinality(DOMAIN pe_entities) = 6
  /\ (pe_i = Len(pe_response) /\ Len(pe_response) = 2 * ExampleItems + 2
        /\ pe_response \in ExampleResponses) =>
       LET c1 == pe_response[1].name
           c2 == pe_response[ExampleItems + 2].name
       IN /\ pe_entities[c1] =
               [i \in 1..ExampleItems |-> pe_response[1 + i].item]
          /\ pe_entities[c2] =
               [i \in 1..ExampleItems |-> pe_response[ExampleItems + 2 + i].item]
          /\ \A c \in EntityCategories \ {c1, c2} : pe_entities[c] = <<>>

C30_EntityParsing == [](C30_Result) /\ [][C30_LineRule]_vars

C30_Witness ==
  /\ pe_i = Len(pe_response)
  /\ pe_response \in ExampleResponses
  /\ pe_entities["cities_places"] = <<2, 3, 1>>
  /\ pe_entities["urban_concepts"] = <<1, 2, 3>>

\* The author values that name the designated author, and the catalogue
\* texts that name him after an author label.
HallAuthors == {Str(PeterHallText), Str(HALLText), Str(HallCommaText)}
HallCatalogues == {CatalogueNamed, CatalogueNamedUpperCase}

SourceOrder == <<"metadata", "content", "catalogue">>

\* C31: the flag is 0 or 1; the sources are tested in the order metadata
\* author, content author, catalogue text, a later one only when no
\* earlier one matched; the flag is 1 exactly when one of them matches.
C31_DesignatedAuthorFlag ==
  LET m == hf_metadata_author \in HallAuthors
      c == hf_content_author \in HallAuthors
      k == hf_catalogue_entry \in HallCatalogues
  IN /\ is_hall_document \in {0, 1}
     /\ Len(hf_examined) <= 3
     /\ \A i \in DOMAIN hf_examined : hf_examined[i] = SourceOrder[i]
     /\ hf_pc = "done" =>
          /\ is_hall_document = 1 <=> (m \/ c \/ k)
          /\ Len(hf_examined) = (IF m THEN 1 ELSE IF c THEN 2 ELSE 3)

C31_Witness ==
  /\ hf_pc = "done"
  /\ hf_metadata_author = Str(UnknownText)
  /\ hf_content_author = Str(PeterHallText)
  /\ hf_catalogue_entry = CatalogueNamed
  /\ hf_examined = <<"metadata", "content">>
  /\ is_hall_document = 1

\* The order of the outbound calls of one document.
CallOrder ==
  <<"extraction", "initial", "detailed", "classification", "confidentiality",
    "catalogue", "writing_style", "frameworks", "qa_pairs", "comparative",
    "final", "embedding", "entities", "relationships">>

CallPosition(step) == CHOOSE i \in DOMAIN CallOrder : CallOrder[i] = step

\* C32, the order: the calls of a document are made in the fixed order,
\* and a document with fourteen calls made them all, each once.
C32_FixedOrder ==
  \A h \in Handlers :
    /\ \A i \in DOMAIN d_calls[h] :
         \E p \in DOMAIN CallOrder : CallOrder[p] = d_calls[h][i]
    /\ \A i, j \in DOMAIN d_calls[h] :
         i < j => CallPosition(d_calls[h][i]) < CallPosition(d_calls[h][j])
    /\ (d_pc[h] = "done" /\ Len(d_calls[h]) = Len(CallOrder)) =>
         d_calls[h] = CallOrder

\* C32, one step: a call of a document starts only when no call of that
\* document is under way, whatever the other documents are doing.
C32_OneCallAtATime ==
  \A h \in Handlers :
    d_calls'[h] # d_calls[h] =>
      /\ ~d_inflight[h]
      /\ d_inflight'[h]
      /\ Len(d_calls'[h]) = Len(d_calls[h]) + 1
      /\ \A g \in Handlers \ {h} :
           d_calls'[g] = d_calls[g] /\ d_inflight'[g] = d_inflight[g]

C32_SequentialCalls == [](C32_FixedOrder) /\ [][C32_OneCallAtATime]_vars

C32_Witness ==
  \E h, g \in Handlers :
    /\ d_inflight[h]
    /\ d_inflight[g]
    /\ d_pc[h] = "relationships"
    /\ Len(d_calls[h]) = Len(CallOrder)
    /\ d_pc[g] = "detailed"

\* The lines of the response that match the format, and those of them
\* whose triple occurs on no earlier line.
Matching(lines) == {i \in DOMAIN lines : lines[i].kind = "relation"}
TripleOf(line) == <<line.from, line.relation, line.to>>
FirstOccurrences(lines) ==
  {i \in Matching(lines) :
     \A j \in Matching(lines) : j < i => TripleOf(lines[j]) # TripleOf(lines[i])}

\* Every matching line written twice.
RECURSIVE Repeated(_)
Repeated(lines) ==
  IF lines = <<>> THEN <<>>
  ELSE (IF Head(lines).kind = "relation" THEN <<Head(lines), Head(lines)>>
        ELSE <<Head(lines)>>) \o Repeated(Tail(lines))

\* C33: the parsed list has no triple twice; after the last line it holds
\* the triples of the matching lines in the order of their first
\* occurrence, nothing for the other lines, and it is also what the
\* response with every matching line repeated parses to.
C33_RelationshipParsing ==
  /\ \A i, j \in DOMAIN pr_relationships :
       pr_relationships[i] = pr_relationships[j] => i = j
  /\ pr_i = Len(pr_response) =>
       LET first == FirstOccurrences(pr_response) IN
       /\ Len(pr_relationships) = Cardinality(first)
       /\ \A i \in first :
            LET k == Cardinality({j \in first : j <= i})
                r == pr_relationships[k]
            IN <<r.from, r.relation, r.to>> = TripleOf(pr_response[i])
       /\ parse_relationship_lines(<<>>, Repeated(pr_response))
            = pr_relationships

C33_Witness ==
  /\ pr_i = 3
  /\ Len(pr_response) = 3
  /\ pr_response[1] = RelationLine(2, "influences", 1, 0)
  /\ pr_response[2] = PartialLine
  /\ pr_response[3] = RelationLine(2, "influences", 1, PadLen)
  /\ Len(pr_relationships) = 1

\* C34, the returned call: a finished call returned a string and sent
\* between 0 and max_retries requests; it sent none exactly when the API
\* key is missing or the prompt is empty or not a string.
C34_Returned ==
  /\ Len(rc_outcomes) <= max_retries
  /\ rc_pc = "done" =>
       /\ rc_result # None
       /\ Len(rc_outcomes) = 0 <=> rc_result \in {ErrNoKey, ErrPrompt}
  /\ rc_result \in {ErrNoKey, ErrPrompt} => Len(rc_outcomes) = 0

\* C34: whatever the attempts meet, a call that entered the retry loop
\* returns.
C34_ClientTerminates ==
  [](C34_Returned) /\ ((rc_pc = "loop") ~> (rc_pc = "done"))

C34_Witness ==
  /\ rc_pc = "done"
  /\ rc_outcomes = <<"r429", "connerr", "r5xx">>
  /\ rc_result = ErrMaxRetries
  /\ rc_prev.outcomes = <<>>
  /\ rc_prev.result = ErrPrompt

\* C35: a call whose max_retries attempts all met a timeout, a connection
\* failure, a 5xx or a 429 returns the error of its last attempt: the
\* timeout error after a timeout, the connection error after a connection
\* failure, the retries error after a 5xx or a 429.
C35_LastAttemptDecides ==
  (/\ rc_pc = "done"
   /\ Len(rc_outcomes) = max_retries
   /\ \A i \in 1..Len(rc_outcomes) : rc_outcomes[i] \in TransientOutcomes) =>
     rc_result =
       CASE rc_outcomes[max_retries] = "timeout" -> ErrTimeout
         [] rc_outcomes[max_retries] = "connerr" -> ErrConnect
         [] OTHER -> ErrMaxRetries

C35_Witness ==
  /\ rc_pc = "done"
  /\ rc_outcomes = <<"timeout", "r5xx", "connerr">>
  /\ rc_result = ErrConnect
  /\ rc_prev.outcomes = <<"connerr", "timeout", "r429">>
  /\ rc_prev.result = ErrMaxRetries

\* The handler has made its idempotency check.
PastCheck(h) ==
  /\ hpc[h] \notin {"idle", "check_idempotency"}
  /\ EarlyResponse(notification) = NoResponse

\* The handler went on after its idempotency check.
Proceeded(h) ==
  \/ hpc[h] \in {"get_queue_record", "write_ready"}
  \/ Dispatched(h)
  \/ hwrites[h] # <<>>

\* C36: a handler goes on after the idempotency check only when the store
\* is configured and its read returned the record with status
\* ocr_complete; when the read gave no status (store not configured,
\* request failed, non-200 answer, no record) or another status, the
\* handler answers skipped, writes nothing and dispatches nothing.
C36_IdempotencyFailsClosed ==
  \A h \in Handlers :
    /\ Proceeded(h) =>
         (supabase_configured /\ hreads[h] >= 1 /\ hlive[h] = "ocr_complete")
    /\ (PastCheck(h) /\ hlive[h] # "ocr_complete") =>
         /\ hpc[h] = "done"
         /\ response[h] = Response(200, "skipped")
         /\ hwrites[h] = <<>>
         /\ ~Dispatched(h)
         /\ hreads[h] = (IF supabase_configured THEN 1 ELSE 0)

C36_Witness ==
  \E h \in Handlers :
    /\ PastCheck(h)
    /\ supabase_configured
    /\ rec.exists
    /\ rec.status = "ocr_complete"
    /\ hreads[h] = 1
    /\ hlive[h] = None
    /\ response[h] = Response(200, "skipped")
    /\ \A g \in Handlers \ {h} : hpc[g] = "idle"

AsyncFields == {"current_step", "progress", "error_message", "content_title"}

\* C37, the writes: no write of an asynchronous unit names the status
\* column; each names only current_step, progress, error_message and the
\* result fields.
C37_NoStatusInWrites ==
  \A h \in Handlers :
    \A i \in DOMAIN a_ulog[h] :
      /\ "status" \notin DOMAIN a_ulog[h][i]
      /\ DOMAIN a_ulog[h][i] \subseteq AsyncFields

\* C37, one step: no step of the asynchronous path changes the record's
\* status.
C37_StatusKept == rec'.status = rec.status

C37_AsyncUnitKeepsStatus ==
  [](C37_NoStatusInWrites) /\ [][C37_StatusKept]_vars

C37_Witness ==
  \E h \in Handlers :
    /\ a_upc[h] = "done"
    /\ Len(a_ulog[h]) = 2
    /\ rec.current_step = "analysis_complete"
    /\ rec.progress = 90
    /\ rec.status = "ocr_complete"

\* C38: a unit goes on whatever became of its analysis_in_progress write:
\* the pipeline run and the terminal write are enabled in every state of
\* the record, a finished unit has made all three steps, and a unit at its
\* terminal write with the record still in ocr_complete can take it
\* straight to analysis_complete or failed.
C38_UnitGoesOnAfterFailedWrite ==
  \A h \in Handlers :
    /\ upc[h] = "pipeline" => ENABLED UnitPipeline(h)
    /\ upc[h] = "terminal" => ENABLED UnitTerminal(h)
    /\ upc[h] \in {"pipeline", "terminal", "done"} =>
         (Len(ulog[h]) >= 1 /\ ulog[h][1].status = "analysis_in_progress")
    /\ upc[h] = "done" =>
         /\ Len(ulog[h]) = 3
         /\ ulog[h][2].ev = "pipeline"
         /\ ulog[h][3].ev = "write"
    /\ (upc[h] = "terminal" /\ supabase_configured /\ rec.exists
          /\ rec.status = "ocr_complete") =>
         ENABLED (UnitTerminal(h)
                    /\ rec'.status \in {"analysis_complete", "failed"})

C38_Witness ==
  \E h \in Handlers :
    /\ upc[h] = "terminal"
    /\ Len(ulog[h]) = 2
    /\ supabase_configured
    /\ rec.exists
    /\ rec.status = "ocr_complete"
    /\ \A g \in Handlers \ {h} : hpc[g] = "idle" /\ upc[g] = "none"

\* C39, the states: a handler that passed the idempotency check with a
\* payload without content has fetched the record; it goes for the ready
\* write exactly when the content it then holds is absent or shorter than
\* 50 characters once trimmed, and then writes ready once and answers
\* completed.  At the fetch, both outcomes are open: the stored content is
\* taken when the fetch succeeds, and a failed fetch leaves the payload's
\* empty content and leads to the ready write whatever is stored.
C39_ReadyIffMinimal ==
  \A h \in Handlers :
    /\ (PastCheck(h) /\ hlive[h] = "ocr_complete"
          /\ hpc[h] \in {"write_ready", "done"}) =>
         /\ hreads[h] = (IF Truthy(notification.content) THEN 1 ELSE 2)
         /\ (hpc[h] = "write_ready" \/ hwrites[h] # <<>>)
              <=> BelowMinimum(hcontent[h])
         /\ (hpc[h] = "done" /\ BelowMinimum(hcontent[h])) =>
              /\ Len(hwrites[h]) = 1
              /\ hwrites[h][1].status = "ready"
              /\ hwrites[h][1].progress = 100
              /\ response[h] = Response(200, "completed")
    /\ hpc[h] = "get_queue_record" =>
         /\ ~Truthy(notification.content)
         /\ ENABLED (GetQueueRecord(h) /\ hcontent'[h] = notification.content
                       /\ hpc'[h] = "write_ready")
         /\ rec.exists => ENABLED (GetQueueRecord(h) /\ hcontent'[h] = rec.content)

\* C39, the fetch step: the content after the fetch is the stored one or
\* the payload's, and the ready write is next exactly when it is absent or
\* shorter than 50 characters once trimmed.
C39_FetchStep ==
  \A h \in Handlers :
    (hpc[h] = "get_queue_record" /\ hpc'[h] # "get_queue_record") =>
      /\ hcontent'[h] \in {rec.content, notification.content}
      /\ hpc'[h] = "write_ready" <=> BelowMinimum(hcontent'[h])
      /\ hpc'[h] # "write_ready" => upc'[h] = "start"

C39_FallbackFetch == [](C39_ReadyIffMinimal) /\ [][C39_FetchStep]_vars

C39_Witness ==
  \E h \in Handlers :
    /\ hpc[h] = "done"
    /\ hreads[h] = 2
    /\ notification.content = Txt(0, 0, 0)
    /\ rec.exists
    /\ rec.content = Txt(PadLen, MinContentLen, 0)
    /\ hcontent[h] = Txt(0, 0, 0)
    /\ hwrites[h] = <<ReadyData>>
    /\ response[h] = Response(200, "completed")

\* C40: old_record absent, null, empty or without a status gives no old
\* status; an authenticated notification with new status ocr_complete and
\* no old status is not skipped as unchanged but goes on to the idempotency
\* check; a payload whose record has no id is answered 400 with no store
\* read, no write and no dispatch.
C40_MissingOldRecordProceeds ==
  /\ \A o \in OldRecords : o.form # "with_status" => old_status(o) = None
  /\ \A h \in Handlers :
       /\ (/\ hpc[h] # "idle"
           /\ Authenticated
           /\ notification.kind = "ok"
           /\ notification.new_status = "ocr_complete"
           /\ notification.old_status = None) =>
            /\ response[h].code # 400
            /\ \/ hpc[h] = "check_idempotency"
               \/ ~supabase_configured
               \/ hreads[h] >= 1
       /\ (hpc[h] # "idle" /\ Authenticated /\ notification.kind = "no_id") =>
            /\ hpc[h] = "done"
            /\ response[h] = Response(400, None)
            /\ hreads[h] = 0
            /\ hwrites[h] = <<>>
            /\ ~Dispatched(h)

C40_Witness ==
  \E h \in Handlers :
    /\ Authenticated
    /\ notification.kind = "ok"
    /\ notification.new_status = "ocr_complete"
    /\ notification.old_status = None
    /\ hreads[h] = 1
    /\ hlive[h] = "ocr_complete"
    /\ Dispatched(h)
    /\ response[h] = Response(202, "accepted")

====
